---- MODULE Spec2Model ----
(***************************************************************************)
(* Model of the HackingCo swarm task orchestrator                           *)
(* (task/task-orchestrator.ts, kept as src/unnamed/part_002), of the Agent  *)
(* it drives and the AgentManager that creates it                           *)
(* (src/agents/agent-manager.ts), of the pick of AutoStrategy               *)
(* (src/swarm/strategies/auto.ts) and of the SwarmCoordinator facade        *)
(* (src/swarm/coordinator.ts).                                              *)
(*                                                                          *)
(* Granularity.  The code runs on the Node.js event loop.  Every handler    *)
(* below runs inside one macrotask: the awaits inside processTasks,         *)
(* cancelTask, handleTaskCompletion ... resolve through microtasks only     *)
(* (the in-memory MemoryStore and AutoStrategy never wait for a timer), so  *)
(* no other timer callback, setImmediate callback or agent completion can   *)
(* run between their statements.  The only real suspension points are the   *)
(* timers inside Agent.performTask / Agent.initialize / Agent.stop.  Hence:  *)
(* one action per handler, and a separate action for the completion of an   *)
(* agent's execution.                                                       *)
(*                                                                          *)
(* Objects.  TaskInstance objects are referenced from the task map, from    *)
(* the queue and from executions in flight; submitTask and restore create   *)
(* new objects for an id that may still be referenced elsewhere.  The model *)
(* therefore keeps a heap of instances (inst) and refers to them by index.  *)
(***************************************************************************)
EXTENDS Integers, Sequences, FiniteSets, TLC

----------------------------------------------------------------------------
(* Bounds of the model *)

MaxInst == 5          \* TaskInstance objects ever allocated
MaxAttempts == 3      \* cap on task.attempts explored
MaxQueued == 3        \* entries of the ready queue explored
MaxImmediates == 1    \* setImmediate callbacks of registerAgent not yet run
MaxSlots == 5         \* agents in the map of the agent manager at a time
MaxCalls == 2         \* scaleUp calls of the agent manager in flight

(* Configuration (TaskOrchestratorConfig), scaled to model time units *)

MaxRetries == 1       \* retryPolicy.maxRetries
InitialDelay == 2     \* retryPolicy.initialDelay
MaxDelay == 2         \* retryPolicy.maxDelay
Timeout == 0          \* config.timeout
MaxQueueSize == 2     \* config.maxQueueSize

TaskIds == {1, 2, 3}
AgentIds == {"a1", "a2"}
NoAgent == "none"

priorityOrder == <<"critical", "high", "medium", "low">>

Tier(p) == CHOOSE k \in 1..4 : priorityOrder[k] = p

(* Capabilities of the two Agent objects (AgentConfig.capabilities) *)
AgentCaps == [a \in AgentIds |-> IF a = "a2" THEN {"gpu"} ELSE {}]

(* Their types and resources (AgentConfig.type, AgentConfig.resources) *)
AgentTypes == [a \in AgentIds |-> IF a = "a2" THEN "execution" ELSE "analysis"]
AgentResources ==
  [a \in AgentIds |-> IF a = "a2" THEN [cpu |-> 2, memory |-> 1]
                                  ELSE [cpu |-> 1, memory |-> 2]]

(* The Task values a caller may submit; a caller submits each id once (see *)
(* SubmitTask).  Task 1 is the urgent one and needs a capability only agent *)
(* a2 has; tasks 2 and 3 share a tier.                                      *)
(* ChainInputs: the pipeline 1 -> 2 -> 3 (task 2 depends on 1, 3 on 2).     *)
ChainInputs ==
  { [id |-> 1, priority |-> "high", caps |-> {"gpu"}, deps |-> {},
      type |-> "custom", cpu |-> 0, memory |-> 0],
    [id |-> 2, priority |-> "low",  caps |-> {},      deps |-> {1},
      type |-> "custom", cpu |-> 0, memory |-> 0],
    [id |-> 3, priority |-> "low",  caps |-> {},      deps |-> {2},
      type |-> "custom", cpu |-> 0, memory |-> 0] }

(* FlatInputs: two independent tasks of different tiers *)
FlatInputs ==
  { [id |-> 1, priority |-> "high", caps |-> {"gpu"}, deps |-> {},
      type |-> "custom", cpu |-> 0, memory |-> 0],
    [id |-> 2, priority |-> "low",  caps |-> {},      deps |-> {},
      type |-> "custom", cpu |-> 0, memory |-> 0] }

(* FifoInputs: two independent tasks of one tier *)
FifoInputs ==
  { [id |-> 2, priority |-> "low",  caps |-> {},      deps |-> {},
      type |-> "custom", cpu |-> 0, memory |-> 0],
    [id |-> 3, priority |-> "low",  caps |-> {},      deps |-> {},
      type |-> "custom", cpu |-> 0, memory |-> 0] }

(* SwarmInputs: three independent tasks *)
SwarmInputs == FlatInputs \cup FifoInputs

(* CycleInputs: tasks 2 and 3 depend on each other *)
CycleInputs ==
  { [id |-> 1, priority |-> "high", caps |-> {"gpu"}, deps |-> {},
      type |-> "custom", cpu |-> 0, memory |-> 0],
    [id |-> 2, priority |-> "low",  caps |-> {},      deps |-> {3},
      type |-> "custom", cpu |-> 0, memory |-> 0],
    [id |-> 3, priority |-> "low",  caps |-> {},      deps |-> {2},
      type |-> "custom", cpu |-> 0, memory |-> 0] }

(* PickInputs: task 1 fits agent a2 only, task 2 fits agent a1 only, and   *)
(* task 3 asks for more than either agent has                              *)
PickInputs ==
  { [id |-> 1, priority |-> "high", caps |-> {"gpu"}, deps |-> {},
      type |-> "process", cpu |-> 2, memory |-> 1],
    [id |-> 2, priority |-> "low",  caps |-> {},      deps |-> {},
      type |-> "analyze", cpu |-> 1, memory |-> 2],
    [id |-> 3, priority |-> "low",  caps |-> {},      deps |-> {},
      type |-> "custom", cpu |-> 2, memory |-> 2] }

(* FanInputs: tasks 2 and 3 both depend on task 1 *)
FanInputs ==
  { [id |-> 1, priority |-> "high", caps |-> {"gpu"}, deps |-> {},
      type |-> "custom", cpu |-> 0, memory |-> 0],
    [id |-> 2, priority |-> "low",  caps |-> {},      deps |-> {1},
      type |-> "custom", cpu |-> 0, memory |-> 0],
    [id |-> 3, priority |-> "low",  caps |-> {},      deps |-> {1},
      type |-> "custom", cpu |-> 0, memory |-> 0] }

(* PairInputs: task 2 depends on task 1 *)
PairInputs ==
  { [id |-> 1, priority |-> "high", caps |-> {"gpu"}, deps |-> {},
      type |-> "custom", cpu |-> 0, memory |-> 0],
    [id |-> 2, priority |-> "low",  caps |-> {},      deps |-> {1},
      type |-> "custom", cpu |-> 0, memory |-> 0] }

----------------------------------------------------------------------------
VARIABLES
  inst,        \* heap of TaskInstance objects: slot -> record
  results,     \* heap of the results arrays: the last element of each
  tasks,       \* TaskOrchestrator.tasks: id -> instance index, 0 = absent
  order,       \* insertion order of the keys of TaskOrchestrator.tasks
  queue,       \* PriorityTaskQueue.queues: tier -> sequence of instances
  agents,      \* TaskOrchestrator.agents: ids of the registered agents
  astate,      \* Agent._state of each Agent object
  acur,        \* Agent.currentTask of each Agent object (instance, 0 = none)
  running,     \* TaskOrchestrator.running
  timer,       \* TaskOrchestrator.processTimer is set
  immediates,  \* setImmediate(() => processTasks()) callbacks not yet run
  checkpoint,  \* last value returned by serialize() and kept by the caller
  cstate,      \* SwarmCoordinator._state
  cscale,      \* the scaleUp / scaleDown call suspended in an await
  cstop,       \* a stop() call is suspended in its await
  magents,     \* AgentManager.agents: slot -> state of the Agent in it
  mcalls,      \* AgentManager.scaleUp calls suspended in Agent.initialize
  hive,        \* the HiveMind object and the MemoryStore it persists to
  backoff,     \* a retry policy, an attempt count and the delay computed
  health,      \* AgentManager: health timer, round, restart bookkeeping,
               \*   and the Agent.stop calls suspended in their wait
  done,        \* history: id -> result of its last COMPLETED execution
  emitted,     \* history: events emitted by the last handler
  ret          \* history: the last public call and its outcome

ovars == <<inst, results, tasks, order, queue, agents, astate, acur,
           running, timer, immediates, checkpoint>>
cvars == <<cstate, cscale, cstop, magents, mcalls, hive, backoff, health>>
mvars == <<magents, mcalls>>
hvars == <<done, emitted, ret>>
vars == <<inst, results, tasks, order, queue, agents, astate, acur,
          running, timer, immediates, checkpoint, cstate, cscale, cstop,
          magents, mcalls, hive, backoff, health, done, emitted, ret>>

(* The part of the state the handlers of the orchestrator thread through *)
State == [inst |-> inst, results |-> results, tasks |-> tasks,
          order |-> order, queue |-> queue, astate |-> astate,
          acur |-> acur, done |-> done, emitted |-> <<>>]

(* The history keeps the events of these kinds *)
Recorded == {"task:assigned", "task:started", "put-back",
             "swarm:task_assigned"}

(* The place of an event in the life of its task *)
EventClass(ev) ==
  CASE ev \in {"task:queued", "task:waiting"} -> "submitted"
    [] ev \in {"task:unblocked", "task:dependencies-met", "task:retry"}
         -> "ready"
    [] ev = "task:assigned" -> "assigned"
    [] ev = "task:started" -> "started"
    [] ev \in {"task:completed", "task:failed", "task:timeout",
               "task:cancelled", "task:cascade-failed"} -> "terminal"
    [] OTHER -> "other"

(* History: where the events emitted so far for a task have brought it.    *)
(* Submitted once; then rounds that may open with Ready events, go through *)
(* Assigned and Started in this order and end with one terminal event; a   *)
(* task that was never started may get its terminal event (cancelled,      *)
(* cascade-failed) right away.  Anything else is out of order.              *)
NextPhase(p, c) ==
  CASE p = "out-of-order" -> p
    [] c = "other" -> p
    [] c = "submitted" -> IF p = "new" THEN "submitted" ELSE "out-of-order"
    [] c = "ready" -> IF p \in {"submitted", "terminal"} THEN p
                      ELSE "out-of-order"
    [] c = "assigned" -> IF p \in {"submitted", "terminal"} THEN "assigned"
                         ELSE "out-of-order"
    [] c = "started" -> IF p = "assigned" THEN "started" ELSE "out-of-order"
    [] c = "terminal" -> IF p \in {"submitted", "started"} THEN "terminal"
                         ELSE "out-of-order"

Emit(s, e) ==
  LET s1 == IF e.inst # 0
            THEN [s EXCEPT !.inst[e.inst].phase =
                             NextPhase(@, EventClass(e.ev))]
            ELSE s
  IN IF e.ev \in Recorded THEN [s1 EXCEPT !.emitted = Append(@, e)] ELSE s1

(* A history record: the event, the instance and task id it is about, the   *)
(* agent, and one observation made at that moment (ok):                     *)
(*   task:started   every submitted dependency has status COMPLETED         *)
(*   task:assigned  no task of a higher tier is in the queue                *)
(*   put-back       the task is at the head of its tier after the put back  *)
(* "put-back" and "retries-exhausted" mark code paths that emit no event;   *)
(* the emits of start / pause / registerAgent are written the same way.     *)
EvOk(type, i, id, a, ok) ==
  [ev |-> type, inst |-> i, id |-> id, agent |-> a, ok |-> ok]

Ev(type, i, id, a) == EvOk(type, i, id, a, TRUE)

----------------------------------------------------------------------------
(* PriorityTaskQueue *)

EmptyQueue == [k \in 1..4 |-> <<>>]

RemoveAt(q, n) == SubSeq(q, 1, n - 1) \o SubSeq(q, n + 1, Len(q))

QueueAdd(s, i) ==
  [s EXCEPT !.queue[Tier(s.inst[i].priority)] = Append(@, i)]

QueueSize(q) == Len(q[1]) + Len(q[2]) + Len(q[3]) + Len(q[4])

(* remove(taskId): first entry, in tier order, whose task has this id *)
QueueRemove(s, id) ==
  LET hit(k) == {n \in 1..Len(s.queue[k]) : s.inst[s.queue[k][n]].id = id}
      tiers == {k \in 1..4 : hit(k) # {}}
  IN IF tiers = {} THEN s
     ELSE LET k == CHOOSE x \in tiers : \A y \in tiers : x <= y
              n == CHOOSE x \in hit(k) : \A y \in hit(k) : x <= y
          IN [s EXCEPT !.queue[k] = RemoveAt(@, n)]

(* A getNext that walks priorityOrder from its end *)
getNextTierLowestFirst(q) ==
  CHOOSE k \in 1..4 : q[k] # <<>> /\ \A j \in 1..4 : q[j] # <<>> => j <= k

(* getNext(): the tier it takes the head of *)
getNextTier(q) ==
  CHOOSE k \in 1..4 : q[k] # <<>> /\ \A j \in 1..4 : q[j] # <<>> => k <= j

InQueue(q, i) == \E k \in 1..4 : \E n \in 1..Len(q[k]) : q[k][n] = i


----------------------------------------------------------------------------
(* Agent (src/agents/agent-manager.ts) *)

(* canExecute(task): the agent is IDLE and has every required capability.  *)
(* The tasks of TaskInputs carry no resource requirement and have the type *)
(* "custom", which the typeCompatibility table does not list, so the       *)
(* resource and the type tests of canExecute pass for them.                *)
(* The table of Agent.canExecute: the agent types a task type accepts;    *)
(* the types TRANSFORM and CUSTOM have no entry                            *)
typeCompatibility(type) ==
  CASE type = "analyze" -> {"research", "analysis"}
    [] type = "process" -> {"execution", "specialist"}
    [] type = "validate" -> {"validation", "monitoring"}
    [] type = "aggregate" -> {"coordination", "analysis"}
    [] OTHER -> {}

HasTypeEntry(type) == type \in {"analyze", "process", "validate", "aggregate"}

(* A canExecute that does not look at the resources *)
canExecuteAnyResources(s, a, i) ==
  /\ s.astate[a] = "idle"
  /\ s.inst[i].caps \subseteq AgentCaps[a]
  /\ HasTypeEntry(s.inst[i].type) =>
       AgentTypes[a] \in typeCompatibility(s.inst[i].type)

canExecute(s, a, i) ==
  /\ s.astate[a] = "idle"
  /\ s.inst[i].caps \subseteq AgentCaps[a]
  /\ ~ \/ s.inst[i].cpu > AgentResources[a].cpu
       \/ s.inst[i].memory > AgentResources[a].memory
  /\ HasTypeEntry(s.inst[i].type) =>
       AgentTypes[a] \in typeCompatibility(s.inst[i].type)

----------------------------------------------------------------------------
(* TaskOrchestrator: private helpers *)

(* getTaskStatus(taskId) / getTaskResult(taskId), read from a state s *)
getTaskStatus(s, id) ==
  IF s.tasks[id] = 0 THEN "cancelled" ELSE s.inst[s.tasks[id]].status

(* A TaskResult is kept as its status *)
NoResult == "none"

(* Of a results array the code reads the last element only (getTaskResult) *)
(* and the model keeps that element: NoResult stands for the empty array.  *)
getTaskResult(s, id) ==
  IF s.tasks[id] = 0 THEN NoResult ELSE s.results[s.inst[s.tasks[id]].res]

canQueueTask(s, i) ==
  \A d \in s.inst[i].dependencies :
     s.tasks[d] # 0 /\ s.inst[s.tasks[d]].status = "completed"

AddDependent(seq, id) ==
  IF \E n \in 1..Len(seq) : seq[n] = id THEN seq ELSE Append(seq, id)

updateDependencyGraph(s, i) ==
  [s EXCEPT !.inst =
     [j \in DOMAIN s.inst |->
        IF \E d \in s.inst[i].dependencies : s.tasks[d] = j
        THEN [s.inst[j] EXCEPT !.dependents = AddDependent(@, s.inst[i].id)]
        ELSE s.inst[j]]]

MapDelete(s, id) ==
  [s EXCEPT !.tasks[id] = 0,
            !.order = SelectSeq(s.order, LAMBDA x : x # id)]

MapSet(s, id, i) ==
  [s EXCEPT !.tasks[id] = i,
            !.order = IF s.tasks[id] = 0 THEN Append(s.order, id) ELSE s.order]

PushResult(s, i, r) == [s EXCEPT !.results[s.inst[i].res] = r]

Pow2(n) == IF n <= 0 THEN 1 ELSE 2 ^ n

Strategies == {"linear", "exponential", "constant", "custom"}

(* calculateRetryDelay as a function of the policy and of task.attempts.   *)
(* Math.pow(2, attempt - 1) is 1/2 for attempt = 0: initialDelay is taken  *)
(* even, so that the half is a whole number.                               *)
retryDelay(strategy, initialDelay, maxDelay, attempts) ==
  LET attempt == attempts - 1
      delay == CASE strategy = "linear" -> initialDelay * attempt
                 [] strategy = "exponential" ->
                      IF attempt - 1 < 0 THEN initialDelay \div 2
                      ELSE initialDelay * Pow2(attempt - 1)
                 [] OTHER -> initialDelay
  IN IF delay < maxDelay THEN delay ELSE maxDelay

shouldRetry(s, i) == s.inst[i].attempts <= MaxRetries

(* calculateRetryDelay under BackoffStrategy.EXPONENTIAL, the default      *)
(* policy: the first failure (attempts = 1) waits initialDelay * 2^(-1).    *)
calculateRetryDelay(s, i) ==
  retryDelay("exponential", InitialDelay, MaxDelay, s.inst[i].attempts)

(* The tasks of the map that depend, directly or through other tasks, on   *)
(* task id, by the dependency lists they were submitted with               *)
RECURSIVE DescendantsFrom(_, _)
DescendantsFrom(s, S) ==
  LET more == {d \in TaskIds : /\ s.tasks[d] # 0
                                /\ s.inst[s.tasks[d]].subdeps \cap S # {}}
  IN IF more \subseteq S THEN S ELSE DescendantsFrom(s, S \cup more)

Descendants(s, id) == DescendantsFrom(s, {id}) \ {id}

(* history: marks the descendants of instance i that were never started *)
MarkDoomed(s, i) ==
  [s EXCEPT !.inst = [j \in DOMAIN s.inst |->
     IF /\ s.inst[j].id \in Descendants(s, s.inst[i].id)
        /\ s.tasks[s.inst[j].id] = j
        /\ s.inst[j].attempts = 0
     THEN [s.inst[j] EXCEPT !.doomed = TRUE]
     ELSE s.inst[j]]]

RECURSIVE CascadeLoop(_, _, _)
CascadeLoop(s, i, n) ==
  IF n > Len(s.inst[i].dependents) THEN s
  ELSE LET depId == s.inst[i].dependents[n]
           j == s.tasks[depId]
       IN IF j # 0 /\ s.inst[j].status = "pending"
          THEN CascadeLoop(
                 Emit([s EXCEPT !.inst[j].status = "failed"],
                      Ev("task:cascade-failed", j, depId, NoAgent)),
                 i, n + 1)
          ELSE CascadeLoop(s, i, n + 1)

handleTaskFailure(s, i) ==
  LET s1 == Emit(s, Ev("task:failed", i, s.inst[i].id, NoAgent))
  IN IF shouldRetry(s1, i)
     THEN Emit([s1 EXCEPT !.inst[i].status = "pending",
                          !.inst[i].assignedAgent = NoAgent,
                          !.inst[i].retry = calculateRetryDelay(s1, i)],
               Ev("task:scheduled-retry", i, s.inst[i].id, NoAgent))
     ELSE CascadeLoop(
            MarkDoomed(Emit(s1, Ev("retries-exhausted", i, s.inst[i].id,
                                   NoAgent)), i),
            i, 1)

RECURSIVE UnblockLoop(_, _, _)
UnblockLoop(s, i, n) ==
  IF n > Len(s.inst[i].dependents) THEN s
  ELSE LET depId == s.inst[i].dependents[n]
           j == s.tasks[depId]
       IN IF j = 0 THEN UnblockLoop(s, i, n + 1)
          ELSE LET s1 == [s EXCEPT !.inst[j].dependencies = @ \ {s.inst[i].id}]
               IN IF canQueueTask(s1, j)
                  THEN UnblockLoop(
                         Emit(QueueAdd(s1, j),
                              Ev("task:unblocked", j, depId, NoAgent)),
                         i, n + 1)
                  ELSE UnblockLoop(s1, i, n + 1)

handleTaskCompletion(s, i) ==
  LET s1 == UnblockLoop(s, i, 1)
  IN IF Len(s1.inst[i].dependents) = 0 THEN MapDelete(s1, s1.inst[i].id)
     ELSE s1


----------------------------------------------------------------------------
(* TaskOrchestrator: the processing loop *)

RECURSIVE RetryLoop(_, _)
RetryLoop(s, n) ==
  IF n > Len(s.order) THEN s
  ELSE LET i == s.tasks[s.order[n]]
       IN IF s.inst[i].status = "pending" /\ s.inst[i].retry = 0
          THEN RetryLoop(
                 Emit([QueueAdd(s, i) EXCEPT !.inst[i].retry = -1],
                      Ev("task:retry", i, s.order[n], NoAgent)),
                 n + 1)
          ELSE RetryLoop(s, n + 1)

(* processRetries: nextRetryTime <= now is retry = 0 (time left) *)
processRetries(s) == RetryLoop(s, 1)

RECURSIVE DependencyLoop(_, _)
DependencyLoop(s, n) ==
  IF n > Len(s.order) THEN s
  ELSE LET i == s.tasks[s.order[n]]
       IN IF /\ s.inst[i].status = "pending"
             /\ s.inst[i].dependencies # {}
             /\ canQueueTask(s, i)
          THEN DependencyLoop(
                 Emit(QueueAdd(s, i),
                      Ev("task:dependencies-met", i, s.order[n], NoAgent)),
                 n + 1)
          ELSE DependencyLoop(s, n + 1)

checkDependencies(s) == DependencyLoop(s, 1)

DepsCompleted(s, i) ==
  \A d \in s.inst[i].subdeps : getTaskStatus(s, d) = "completed"

HigherQueued(s, i) ==
  \E k \in 1..4 : k < Tier(s.inst[i].priority) /\ s.queue[k] # <<>>

(* executeTask up to its await, with Agent.execute up to its await *)
executeTask(s, i, a) ==
  LET s1 == Emit([s EXCEPT !.inst[i].status = "running"],
                 EvOk("task:started", i, s.inst[i].id, a, DepsCompleted(s, i)))
  IN IF canExecute(s1, a, i)
     THEN [s1 EXCEPT !.astate[a] = "busy", !.acur[a] = i]
     ELSE \* execute() throws: the catch block of executeTask
          handleTaskFailure(
            PushResult([s1 EXCEPT !.inst[i].status = "failed"], i,
                       "failed"), i)

assignTaskToAgent(s, i, a) ==
  executeTask(
    Emit([s EXCEPT !.inst[i].assignedAgent = a,
                   !.inst[i].status = "assigned",
                   !.inst[i].elapsed = 0,
                   !.inst[i].attempts = @ + 1],
         EvOk("task:assigned", i, s.inst[i].id, a, ~HigherQueued(s, i))),
    i, a)

(* An assignTask that filters by capabilities, resources and type but not  *)
(* by the state of the agent                                               *)
EligibleAnyState(s, i, availableAgents) ==
  {a \in availableAgents :
     /\ s.inst[i].caps \subseteq AgentCaps[a]
     /\ ~ \/ s.inst[i].cpu > AgentResources[a].cpu
          \/ s.inst[i].memory > AgentResources[a].memory
     /\ HasTypeEntry(s.inst[i].type) =>
          AgentTypes[a] \in typeCompatibility(s.inst[i].type)}

(* AutoStrategy.assignTask: the agents it may return (it picks among them  *)
(* by policies that draw on Math.random); none when the set is empty       *)
Eligible(s, i, availableAgents) ==
  {a \in availableAgents : s.astate[a] = "idle" /\ canExecute(s, a, i)}

(* assignTasks: the set of states it can end in *)
RECURSIVE assignTasks(_, _)
assignTasks(s, availableAgents) ==
  IF QueueSize(s.queue) = 0 \/ availableAgents = {} THEN {s}
  ELSE LET k == getNextTier(s.queue)
           i == Head(s.queue[k])
           s1 == [s EXCEPT !.queue[k] = Tail(@)]
           el == Eligible(s1, i, availableAgents)
       IN IF el = {}
          THEN LET s2 == QueueAdd(s1, i)
               IN {Emit(s2, EvOk("put-back", i, s.inst[i].id, NoAgent,
                        Head(s2.queue[Tier(s.inst[i].priority)]) = i))}
          ELSE UNION {assignTasks(assignTaskToAgent(s1, i, a),
                                  availableAgents \ {a}) : a \in el}

RECURSIVE TimeoutLoop(_, _)
TimeoutLoop(s, n) ==
  IF n > Len(s.order) THEN s
  ELSE LET id == s.order[n]
           i == s.tasks[id]
       IN IF s.inst[i].status = "running" /\ s.inst[i].elapsed > Timeout
          THEN LET s1 == PushResult(
                           [s EXCEPT !.inst[i].status = "timeout"], i,
                           "timeout")
               IN TimeoutLoop(
                    Emit(handleTaskFailure(s1, i),
                         Ev("task:timeout", i, id, NoAgent)),
                    n + 1)
          ELSE TimeoutLoop(s, n + 1)

checkTimeouts(s) == TimeoutLoop(s, 1)

(* processTasks while running: the set of states it can end in *)
processTasks(s) ==
  {checkTimeouts(s2) :
     s2 \in assignTasks(checkDependencies(processRetries(s)), agents)}


----------------------------------------------------------------------------
(* TaskOrchestrator: public operations, as functions of the state *)

NewInstance(t, n) ==
  [id |-> t.id, priority |-> t.priority, caps |-> t.caps,
   type |-> t.type, cpu |-> t.cpu, memory |-> t.memory,
   status |-> "pending", assignedAgent |-> NoAgent, attempts |-> 0,
   res |-> n, dependencies |-> t.deps, dependents |-> <<>>,
   elapsed |-> 0, retry |-> -1,
   subdeps |-> t.deps,  \* history: the dependency list as submitted
   cancelled |-> -1,    \* history: attempts when cancelTask reached it
   phase |-> "new",     \* history: see NextPhase
   doomed |-> FALSE]    \* history: an ancestor failed for good before
                        \*   this task was ever started

QueueFull(s) == QueueSize(s.queue) >= MaxQueueSize

(* Heap slots: the instance submitTask first creates for id k lives in     *)
(* slot k, the instances restore or a later submitTask of the id create in *)
(* the slots after the task ids.                                           *)
FreeSlots(s) ==
  {i \in DOMAIN s.inst : i \notin TaskIds /\ s.inst[i].status = "free"}

NextFree(s) == CHOOSE i \in FreeSlots(s) : \A j \in FreeSlots(s) : i <= j

(* submitTask once the queue-size check has passed *)
submitTask(s, t) ==
  LET i == IF s.inst[t.id].status = "free" THEN t.id ELSE NextFree(s)
      s1 == [s EXCEPT !.inst[i] = NewInstance(t, i)]
      s2 == updateDependencyGraph(MapSet(s1, t.id, i), i)
  IN IF canQueueTask(s2, i)
     THEN Emit(QueueAdd(s2, i), Ev("task:queued", i, t.id, NoAgent))
     ELSE Emit(s2, Ev("task:waiting", i, t.id, NoAgent))

RECURSIVE ReassignLoop(_, _, _)
ReassignLoop(s, a, n) ==
  IF n > Len(s.order) THEN s
  ELSE LET i == s.tasks[s.order[n]]
       IN IF s.inst[i].assignedAgent = a /\ s.inst[i].status = "running"
          THEN ReassignLoop(
                 QueueAdd([s EXCEPT !.inst[i].assignedAgent = NoAgent,
                                    !.inst[i].status = "pending"], i),
                 a, n + 1)
          ELSE ReassignLoop(s, a, n + 1)

(* unregisterAgent: the re-queueing of the tasks running on the agent *)
unregisterAgent(s, a) ==
  Emit(ReassignLoop(s, a, 1), Ev("agent:unregistered", 0, 0, a))

(* A terminal status: COMPLETED, CANCELLED, or FAILED / TIMEOUT with the   *)
(* retries used up                                                         *)
IsTerminal(r) ==
  \/ r.status \in {"completed", "cancelled"}
  \/ r.status \in {"failed", "timeout"} /\ r.attempts > MaxRetries

RECURSIVE cancelTask(_, _)
RECURSIVE CancelLoop(_, _, _)
CancelLoop(s, i, n) ==
  IF n > Len(s.inst[i].dependents) THEN s
  ELSE CancelLoop(cancelTask(s, s.inst[i].dependents[n]), i, n + 1)

cancelTask(s, id) ==
  LET i == s.tasks[id]
  IN IF i = 0 THEN s
     ELSE LET s1 == IF s.inst[i].status = "running"
                       /\ s.inst[i].assignedAgent \in agents
                    THEN Emit(s, Ev("task:cancel-requested", i, id,
                                    s.inst[i].assignedAgent))
                    ELSE s
              \* history: the attempts of a task cancelled before its end
              c == IF IsTerminal(s.inst[i]) THEN s.inst[i].cancelled
                   ELSE s.inst[i].attempts
              s2 == QueueRemove([s1 EXCEPT !.inst[i].status = "cancelled",
                                           !.inst[i].cancelled = c],
                                id)
          IN Emit(CancelLoop(s2, i, 1), Ev("task:cancelled", i, id, NoAgent))

(* serialize(): the tasks entries, in map order.  The copy of a task is    *)
(* shallow: it refers to the same results array (res).                     *)
serialize(s) == [n \in 1..Len(s.order) |-> s.inst[s.tasks[s.order[n]]]]

Free == [id |-> 0, priority |-> "low", caps |-> {},
         type |-> "custom", cpu |-> 0, memory |-> 0,
         status |-> "free", assignedAgent |-> NoAgent, attempts |-> 0,
         res |-> 0, dependencies |-> {}, dependents |-> <<>>,
         elapsed |-> 0, retry |-> -1, subdeps |-> {}, cancelled |-> -1,
         phase |-> "new", doomed |-> FALSE]

RECURSIVE RestoreLoop(_, _, _)
RestoreLoop(s, data, n) ==
  IF n > Len(data) THEN s
  ELSE LET i == NextFree(s)
           s1 == MapSet([s EXCEPT !.inst[i] = data[n]], data[n].id, i)
           s2 == IF data[n].status = "pending" THEN QueueAdd(s1, i) ELSE s1
       IN RestoreLoop(updateDependencyGraph(s2, i), data, n + 1)

restore(s, data) ==
  RestoreLoop([s EXCEPT !.tasks = [id \in TaskIds |-> 0],
                        !.order = <<>>,
                        !.queue = EmptyQueue],
              data, 1)

(* The agent's execution of instance i ends with status st: Agent.execute  *)
(* returns and executeTask resumes after its await                         *)
executionEnds(s, a, st) ==
  LET i == s.acur[a]
      r == st
      s1 == [s EXCEPT !.astate[a] = "idle", !.acur[a] = 0]
      s2 == PushResult([s1 EXCEPT !.inst[i].status = st], i, r)
  IN IF st = "completed"
     THEN handleTaskCompletion(
            Emit([s2 EXCEPT !.done[s.inst[i].id] = r],
                 Ev("task:completed", i, s.inst[i].id, a)), i)
     ELSE handleTaskFailure(s2, i)


----------------------------------------------------------------------------
(* Actions *)

NoCall == [op |-> "none", arg |-> 0, out |-> "none"]

(* startTime is read only while the task is RUNNING (checkTimeouts), and    *)
(* every entry to RUNNING sets it anew: the time since startTime is kept    *)
(* for RUNNING tasks only.                                                  *)
Normalize(s) ==
  [s EXCEPT !.inst = [i \in DOMAIN s.inst |->
     IF s.inst[i].status = "running" THEN s.inst[i]
     ELSE [s.inst[i] EXCEPT !.elapsed = 0]]]

Commit(s0) ==
  LET s == Normalize(s0)
  IN /\ \A i \in DOMAIN s.inst : s.inst[i].attempts <= MaxAttempts
     /\ QueueSize(s.queue) <= MaxQueued
     /\ inst' = s.inst
     /\ results' = s.results
     /\ tasks' = s.tasks
     /\ order' = s.order
     /\ queue' = s.queue
     /\ astate' = s.astate
     /\ acur' = s.acur
     /\ done' = s.done
     /\ emitted' = s.emitted

(* TaskOrchestrator.start / stop / pause / resume *)
start ==
  /\ running' = TRUE
  /\ timer' = IF running THEN timer ELSE TRUE
  /\ emitted' = IF running THEN <<>>
                ELSE Emit(State, Ev("started", 0, 0, NoAgent)).emitted
  /\ UNCHANGED <<inst, results, tasks, order, queue, agents, astate, acur,
                 immediates, done>>

stop ==
  /\ running' = FALSE
  /\ timer' = IF running THEN FALSE ELSE timer
  /\ emitted' = IF running
                THEN Emit(State, Ev("stopped", 0, 0, NoAgent)).emitted
                ELSE <<>>
  /\ UNCHANGED <<inst, results, tasks, order, queue, agents, astate, acur,
                 immediates, done>>

(* A pause that only announces itself *)
pauseKeepsRunning ==
  /\ running' = running
  /\ emitted' = Emit(State, Ev("paused", 0, 0, NoAgent)).emitted
  /\ UNCHANGED <<inst, results, tasks, order, queue, agents, astate, acur,
                 timer, immediates, done>>

pause ==
  /\ running' = FALSE
  /\ emitted' = Emit(State, Ev("paused", 0, 0, NoAgent)).emitted
  /\ UNCHANGED <<inst, results, tasks, order, queue, agents, astate, acur,
                 timer, immediates, done>>

resume ==
  /\ running' = TRUE
  /\ emitted' = Emit(State, Ev("resumed", 0, 0, NoAgent)).emitted
  /\ UNCHANGED <<inst, results, tasks, order, queue, agents, astate, acur,
                 timer, immediates, done>>

Start ==
  /\ ~running
  /\ start
  /\ ret' = NoCall
  /\ UNCHANGED <<checkpoint, cvars>>

NoEvent == [ev |-> "none", inst |-> 0, id |-> 0, agent |-> NoAgent, ok |-> TRUE]

(* submitTask called with t; a caller that goes on after it returns records *)
(* the event after                                                         *)
SubmitTaskBody(t, op, after) ==
  /\ inst[t.id].status = "free"
  /\ IF QueueFull(State)
     THEN /\ ret' = [op |-> op, arg |-> t.id, out |-> "throw"]
          /\ emitted' = <<>>
          /\ UNCHANGED <<inst, results, tasks, order, queue, astate, acur,
                         done>>
     ELSE /\ Commit(Emit(submitTask(State, t), after))
          /\ ret' = [op |-> op, arg |-> t.id, out |-> "ok"]
  /\ UNCHANGED <<agents, running, timer, immediates, checkpoint>>

SubmitTask(t) ==
  /\ SubmitTaskBody(t, "submitTask", NoEvent)
  /\ UNCHANGED cvars

(* submitTask called again with an id it was called with before *)
ResubmitTask(t) ==
  /\ inst[t.id].status # "free"
  /\ FreeSlots(State) # {}
  /\ IF QueueFull(State)
     THEN /\ ret' = [op |-> "submitTask", arg |-> t.id, out |-> "throw"]
          /\ emitted' = <<>>
          /\ UNCHANGED <<inst, results, tasks, order, queue, astate, acur,
                         done>>
     ELSE /\ Commit(submitTask(State, t))
          /\ ret' = [op |-> "submitTask", arg |-> t.id, out |-> "ok"]
  /\ UNCHANGED <<agents, running, timer, immediates, checkpoint, cvars>>

RegisterAgentBody(a) ==
  /\ running => immediates < MaxImmediates
  /\ agents' = agents \cup {a}
  /\ immediates' = IF running THEN immediates + 1 ELSE immediates
  /\ emitted' = Emit(State, Ev("agent:registered", 0, 0, a)).emitted
  /\ ret' = NoCall
  /\ UNCHANGED <<inst, results, tasks, order, queue, astate, acur, running,
                 timer, checkpoint, done>>

RegisterAgent(a) ==
  /\ RegisterAgentBody(a)
  /\ UNCHANGED cvars

UnregisterAgentBody(a) ==
  /\ agents' = agents \ {a}
  /\ Commit(unregisterAgent(State, a))
  /\ ret' = NoCall
  /\ UNCHANGED <<running, timer, immediates, checkpoint>>

UnregisterAgent(a) ==
  /\ UnregisterAgentBody(a)
  /\ UNCHANGED cvars

CancelTask(id) ==
  /\ Commit(cancelTask(State, id))
  /\ ret' = [op |-> "cancelTask", arg |-> id, out |-> "ok"]
  /\ UNCHANGED <<agents, running, timer, immediates, checkpoint, cvars>>

(* The setInterval callback of start() *)
Tick ==
  /\ timer
  /\ running
  /\ \E s \in processTasks(State) : Commit(s)
  /\ ret' = NoCall
  /\ UNCHANGED <<agents, running, timer, immediates, checkpoint, cvars>>

(* The setImmediate callback of registerAgent *)
Immediate ==
  /\ immediates > 0
  /\ immediates' = immediates - 1
  /\ IF running
     THEN \E s \in processTasks(State) : Commit(s)
     ELSE /\ emitted' = <<>>
          /\ UNCHANGED <<inst, results, tasks, order, queue, astate, acur,
                         done>>
  /\ ret' = NoCall
  /\ UNCHANGED <<agents, running, timer, checkpoint, cvars>>

(* Agent.performTask ends: it resolves (COMPLETED) or throws (FAILED) *)
AgentResult(a, st) ==
  /\ acur[a] # 0
  /\ \E s \in {executionEnds(State, a, st)} : Commit(s)
  /\ ret' = NoCall
  /\ UNCHANGED <<agents, running, timer, immediates, checkpoint, cvars>>

(* Agent.stop (AgentManager.stopAgent calls it) up to its await: with a    *)
(* current task it waits in waitForTaskCompletion, otherwise it goes on to *)
(* TERMINATED in the same turn                                             *)
AgentStop(a) ==
  /\ astate[a] \in {"idle", "busy"}
  /\ IF acur[a] # 0
     THEN /\ astate' = [astate EXCEPT ![a] = "terminating"]
          /\ health' = [health EXCEPT !.stopping = @ \cup {a}]
     ELSE /\ astate' = [astate EXCEPT ![a] = "terminated"]
          /\ UNCHANGED health
  /\ ret' = [op |-> "agent.stop", arg |-> 0, out |-> "pending"]
  /\ emitted' = <<>>
  /\ UNCHANGED <<inst, results, tasks, order, queue, agents, acur, running,
                 timer, immediates, checkpoint, done, cstate, cscale, cstop,
                 mvars, hive, backoff>>

(* waitForTaskCompletion returns, because currentTask is unset at one of   *)
(* its polls or because maxWait has expired, and stop() sets TERMINATED    *)
AgentStopEnd(a, expired) ==
  /\ a \in health.stopping
  /\ acur[a] = 0 \/ expired
  /\ astate' = [astate EXCEPT ![a] = "terminated"]
  /\ health' = [health EXCEPT !.stopping = @ \ {a}]
  /\ ret' = NoCall
  /\ emitted' = <<>>
  /\ UNCHANGED <<inst, results, tasks, order, queue, agents, acur, running,
                 timer, immediates, checkpoint, done, cstate, cscale, cstop,
                 mvars, hive, backoff>>

Age(r) ==
  [r EXCEPT !.elapsed = IF r.status = "running" /\ @ <= Timeout
                        THEN @ + 1 ELSE @,
            !.retry = IF @ > 0 THEN @ - 1 ELSE @]

(* One unit of time passes *)
Advance ==
  /\ \/ \E i \in DOMAIN inst : Age(inst[i]) # inst[i]
     \/ \E n \in DOMAIN checkpoint.tasks :
          Age(checkpoint.tasks[n]) # checkpoint.tasks[n]
  /\ inst' = [i \in DOMAIN inst |-> Age(inst[i])]
  /\ checkpoint' = [checkpoint EXCEPT !.tasks =
                      [n \in DOMAIN checkpoint.tasks |-> Age(checkpoint.tasks[n])]]
  /\ emitted' = <<>>
  /\ ret' = NoCall
  /\ UNCHANGED <<results, tasks, order, queue, agents, astate, acur, running,
                 timer, immediates, done, cvars>>

Serialize ==
  /\ checkpoint' = [has |-> TRUE, tasks |-> serialize(State)]
  /\ emitted' = <<>>
  /\ ret' = NoCall
  /\ UNCHANGED <<inst, results, tasks, order, queue, agents, astate, acur,
                 running, timer, immediates, done, cvars>>

Restore ==
  /\ checkpoint.has
  /\ Len(checkpoint.tasks) <= Cardinality(FreeSlots(State))
  /\ Commit(restore(State, checkpoint.tasks))
  /\ ret' = NoCall
  /\ UNCHANGED <<agents, running, timer, immediates, checkpoint, cvars>>

----------------------------------------------------------------------------
(* SwarmCoordinator *)

(* Agents created by initialize, and the one scaleUp adds *)
InitialAgent == "a2"
ScaledAgent == "a1"

(* A state check that lets a paused swarm take tasks *)
submitRejectedUnlessPaused(c) == c \notin {"running", "paused"}

(* The state check at the head of SwarmCoordinator.submitTask *)
submitRejected(c) == c # "running"

SwarmInitialize(ok) ==
  /\ cstate = "initializing"
  /\ cstate' = IF ok THEN "ready" ELSE "failed"
  /\ agents' = IF ok THEN agents \cup {InitialAgent} ELSE agents
  /\ emitted' = <<>>
  /\ ret' = NoCall
  /\ UNCHANGED <<inst, results, tasks, order, queue, astate, acur, running,
                 timer, immediates, checkpoint, done, cscale, cstop, mvars, hive, backoff, health>>

(* A lifecycle call that throws at its state check *)
SwarmThrows(op) ==
  /\ ret' = [op |-> op, arg |-> 0, out |-> "throw"]
  /\ emitted' = <<>>
  /\ UNCHANGED <<ovars, done, cvars>>

SwarmReturns(op) == ret' = [op |-> op, arg |-> 0, out |-> "ok"]

SwarmStart ==
  IF cstate # "ready"
  THEN SwarmThrows("swarm.start")
  ELSE /\ cstate' = "running"
       /\ start
       /\ SwarmReturns("swarm.start")
       /\ UNCHANGED <<checkpoint, cscale, cstop, mvars, hive, backoff, health>>

SwarmPause ==
  IF cstate # "running"
  THEN SwarmThrows("swarm.pause")
  ELSE /\ cstate' = "paused"
       /\ pause
       /\ SwarmReturns("swarm.pause")
       /\ UNCHANGED <<checkpoint, cscale, cstop, mvars, hive, backoff, health>>

SwarmResume ==
  IF cstate # "paused"
  THEN SwarmThrows("swarm.resume")
  ELSE /\ cstate' = "running"
       /\ resume
       /\ SwarmReturns("swarm.resume")
       /\ UNCHANGED <<checkpoint, cscale, cstop, mvars, hive, backoff, health>>

(* stop() up to its await; the components exist once initialize succeeded *)
SwarmStopBegin ==
  /\ cstate \notin {"terminated", "initializing", "failed"}
  /\ ~cstop
  /\ cstate' = "completing"
  /\ cstop' = TRUE
  /\ stop
  /\ ret' = NoCall
  /\ UNCHANGED <<checkpoint, cscale, mvars, hive, backoff, health>>

(* stop() after its await *)
SwarmStopEnd ==
  /\ cstop
  /\ cstate' = "completed"
  /\ cstop' = FALSE
  /\ emitted' = <<>>
  /\ ret' = NoCall
  /\ UNCHANGED <<ovars, done, cscale, mvars, hive, backoff, health>>

(* scaleUp up to the await of Agent.initialize in the agent manager *)
SwarmScaleUpBegin ==
  /\ cstate = "running"
  /\ cscale = "none"
  /\ cstate' = "scaling"
  /\ cscale' = "up"
  /\ emitted' = <<>>
  /\ ret' = NoCall
  /\ UNCHANGED <<ovars, done, cstop, mvars, hive, backoff, health>>

(* scaleUp after the await: the new agent is registered and the finally   *)
(* block sets RUNNING                                                      *)
SwarmScaleUpEnd ==
  /\ cscale = "up"
  /\ cstate' = "running"
  /\ cscale' = "none"
  /\ IF ScaledAgent \notin agents
     THEN RegisterAgentBody(ScaledAgent)
     ELSE /\ emitted' = <<>>
          /\ ret' = NoCall
          /\ UNCHANGED <<ovars, done>>
  /\ UNCHANGED <<cstop, mvars, hive, backoff, health>>

(* The agents in the insertion order of the map of the agent manager *)
AgentOrder == <<InitialAgent, ScaledAgent>>

Range(q) == {q[n] : n \in 1..Len(q)}

(* A scaleDown that takes the first agents of the map whatever they do *)
scaleDownAnyState(S, st, count) ==
  LET all == SelectSeq(AgentOrder, LAMBDA a : a \in S)
  IN SubSeq(all, 1, IF count < Len(all) THEN count ELSE Len(all))

(* AgentManager.scaleDown: the first count IDLE agents of the map *)
scaleDown(S, st, count) ==
  LET idle == SelectSeq(AgentOrder, LAMBDA a : a \in S /\ st[a] = "idle")
  IN SubSeq(idle, 1, IF count < Len(idle) THEN count ELSE Len(idle))

(* The loop of SwarmCoordinator.scaleDown over the removed agents *)
RECURSIVE UnregisterLoop(_, _, _)
UnregisterLoop(s, removed, n) ==
  IF n > Len(removed) THEN s
  ELSE UnregisterLoop(unregisterAgent(s, removed[n]), removed, n + 1)

(* SwarmCoordinator.scaleDown: stopping an IDLE agent needs no timer, so   *)
(* the call runs from its state check to its finally block in one turn;    *)
(* the history keeps the number of agents it removed                       *)
SwarmScaleDown(count) ==
  /\ cstate = "running"
  /\ LET removed == scaleDown(agents, astate, count)
     IN /\ agents' = agents \ Range(removed)
        /\ Commit(UnregisterLoop(State, removed, 1))
        /\ ret' = [op |-> "swarm.scaleDown", arg |-> Len(removed),
                   out |-> "ok"]
  /\ UNCHANGED <<running, timer, immediates, checkpoint, cvars>>

(* config.scaling.minAgents: createInitialAgents creates that many agents *)
minAgents == 1

(* TaskOrchestrator.getMetrics, as far as shouldScale reads it *)
getMetrics(s) ==
  LET in == {id \in TaskIds : s.tasks[id] # 0}
      with(st) == Cardinality({id \in in : s.inst[s.tasks[id]].status = st})
  IN [total |-> Cardinality(in), completed |-> with("completed"),
      failed |-> with("failed")]

(* AutoStrategy.shouldScale.  successRate / 100 is completed / total, so   *)
(* calculateUtilization is completed / total (0 without tasks);            *)
(* analyzePerformanceTrend is always stable                                *)
shouldScale(m, peakConcurrency) ==
  LET backlog == m.total - m.completed - m.failed
      \* utilization < n / d, utilization > n / d
      below(n, d) == m.total = 0 \/ d * m.completed < n * m.total
      above(n, d) == m.total # 0 /\ d * m.completed > n * m.total
      peak == IF peakConcurrency = 0 THEN 1 ELSE peakConcurrency
      needed == IF m.completed = 0 THEN 5
                ELSE (backlog * peak + m.completed - 1) \div m.completed
  IN IF above(85, 100) \/ backlog > 50
     THEN [action |-> "up", count |-> IF needed < 5 THEN needed ELSE 5]
     ELSE IF below(3, 10) /\ backlog < 5
          THEN [action |-> "down",
                count |-> IF below(1, 10) THEN 2
                          ELSE IF below(2, 10) THEN 1 ELSE 0]
          ELSE [action |-> "none", count |-> 0]

(* The interval callback of startAutoScaling.  With a count of 0 scaleUp   *)
(* and scaleDown set SCALING and RUNNING again within the turn             *)
AutoScale(peakConcurrency) ==
  /\ cstate = "running"
  /\ LET d == shouldScale(getMetrics(State), peakConcurrency)
         removed == IF d.action = "down"
                    THEN scaleDown(agents, astate, d.count) ELSE <<>>
     IN /\ agents' = agents \ Range(removed)
        /\ Commit(UnregisterLoop(State, removed, 1))
        /\ ret' = [op |-> "autoscale", arg |-> Len(removed),
                   out |-> d.action]
        /\ IF d.action = "up" /\ d.count > 0
           THEN cstate' = "scaling" /\ cscale' = "up"
           ELSE UNCHANGED <<cstate, cscale>>
  /\ UNCHANGED <<running, timer, immediates, checkpoint, cstop, mvars, hive,
                 backoff, health>>

(* SwarmCoordinator.submitTask; a task is valid when validateTask accepts *)
(* it                                                                      *)
SwarmSubmitTask(t, valid) ==
  IF submitRejected(cstate) \/ ~valid
  THEN /\ inst[t.id].status = "free"
       /\ ret' = [op |-> IF valid THEN "swarm.submitTask"
                                  ELSE "swarm.submitTask.invalid",
                  arg |-> t.id, out |-> "throw"]
       /\ emitted' = <<>>
       /\ UNCHANGED <<ovars, done, cvars>>
  ELSE /\ SubmitTaskBody(t, "swarm.submitTask",
                         Ev("swarm:task_assigned", 0, t.id, NoAgent))
       /\ UNCHANGED cvars


----------------------------------------------------------------------------
(* AgentManager *)

(* config.maxAgents *)
maxAgents == 3

NoScaleUp == [slot |-> 0, left |-> 0]

(* getActiveCount: the agents of the map that are not TERMINATED *)
getActiveCount(m) ==
  Cardinality({k \in DOMAIN m : m[k] \notin {"free", "terminated"}})

FreeSlot(m) ==
  CHOOSE k \in DOMAIN m : m[k] = "free" /\ \A j \in 1..(k - 1) : m[j] # "free"

(* createAgent up to the await of Agent.initialize: the agent is in the    *)
(* map, INITIALIZING                                                       *)
createAgent(m) == [m EXCEPT ![FreeSlot(m)] = "initializing"]

(* scaleUp(count): the limit check, then the first createAgent up to its   *)
(* await                                                                   *)
ScaleUp(c, count) ==
  /\ mcalls[c] = NoScaleUp
  /\ \A b \in 1..(c - 1) : mcalls[b] # NoScaleUp
  /\ IF getActiveCount(magents) + count > maxAgents
     THEN /\ ret' = [op |-> "scaleUp", arg |-> count, out |-> "throw"]
          /\ UNCHANGED mvars
     ELSE /\ \E k \in 1..MaxSlots : magents[k] = "free"
          /\ magents' = createAgent(magents)
          /\ mcalls' = [mcalls EXCEPT ![c] = [slot |-> FreeSlot(magents),
                                             left |-> count - 1]]
          /\ ret' = [op |-> "scaleUp", arg |-> count, out |-> "pending"]
  /\ emitted' = <<>>
  /\ UNCHANGED <<ovars, done, cstate, cscale, cstop, hive, backoff, health>>

(* Agent.initialize of the agent of call c resolves: the agent becomes     *)
(* READY, start() makes it IDLE, and the loop of scaleUp creates the next  *)
(* agent or returns                                                        *)
AgentInitialized(c) ==
  /\ mcalls[c] # NoScaleUp
  /\ LET m == [magents EXCEPT ![mcalls[c].slot] = "idle"]
     IN IF mcalls[c].left > 0
        THEN /\ \E k \in 1..MaxSlots : m[k] = "free"
             /\ magents' = createAgent(m)
             /\ mcalls' = [mcalls EXCEPT ![c] = [slot |-> FreeSlot(m),
                                                left |-> mcalls[c].left - 1]]
        ELSE /\ magents' = m
             /\ mcalls' = [mcalls EXCEPT ![c] = NoScaleUp]
  /\ ret' = NoCall
  /\ emitted' = <<>>
  /\ UNCHANGED <<ovars, done, cstate, cscale, cstop, hive, backoff, health>>

(* AgentManager.scaleDown on its own: the first count IDLE agents of the   *)
(* map are stopped and deleted                                             *)
RECURSIVE stopIdle(_, _, _)
stopIdle(m, k, count) ==
  IF k > MaxSlots \/ count = 0 THEN m
  ELSE IF m[k] = "idle"
       THEN stopIdle([m EXCEPT ![k] = "free"], k + 1, count - 1)
       ELSE stopIdle(m, k + 1, count)

ScaleDown(count) ==
  /\ \E k \in 1..MaxSlots : magents[k] = "idle"
  /\ magents' = stopIdle(magents, 1, count)
  /\ ret' = [op |-> "scaleDown", arg |-> count, out |-> "ok"]
  /\ emitted' = <<>>
  /\ UNCHANGED <<ovars, done, cstate, cscale, cstop, mcalls, hive, backoff, health>>

----------------------------------------------------------------------------
(* AgentManager: health checks and restarts *)

(* config.restartPolicy, the delay in model time units *)
maxRestarts == 3
restartDelay == 1
backoffMultiplier == 2

(* healthCheckTimer is set; the slot whose agent the running round of      *)
(* performHealthChecks is probing (0: no round is running); restartCount   *)
(* of the agent of each slot; the restart timers set by                    *)
(* handleUnhealthyAgent with their delays (-1: none); history: the agents  *)
(* agent:failed was emitted for; the agents of the scheduler whose stop()  *)
(* is suspended in waitForTaskCompletion                                   *)
NoHealth == [timer |-> FALSE, round |-> 0,
             restartCount |-> [k \in 1..MaxSlots |-> 0],
             restarts |-> [k \in 1..MaxSlots |-> -1],
             failed |-> {}, stopping |-> {}]

(* Agent.initialize of the agent of call c throws (a listener of 'ready'   *)
(* throws): the catch block sets ERROR, createAgent and scaleUp reject,    *)
(* and the agent stays in the map                                          *)
AgentInitializeThrows(c) ==
  /\ mcalls[c] # NoScaleUp
  /\ magents' = [magents EXCEPT ![mcalls[c].slot] = "error"]
  /\ mcalls' = [mcalls EXCEPT ![c] = NoScaleUp]
  /\ ret' = [op |-> "scaleUp", arg |-> mcalls[c].slot, out |-> "throw"]
  /\ emitted' = <<>>
  /\ UNCHANGED <<ovars, done, cstate, cscale, cstop, hive, backoff, health>>

(* AgentManager.start: the interval timer of performHealthChecks *)
ManagerStart ==
  /\ ~health.timer
  /\ health' = [health EXCEPT !.timer = TRUE]
  /\ ret' = [op |-> "managerStart", arg |-> 0, out |-> "ok"]
  /\ emitted' = <<>>
  /\ UNCHANGED <<ovars, done, cstate, cscale, cstop, mvars, hive, backoff>>

(* The agents of the map after slot k, in the order of the loop *)
NextAgent(m, k) ==
  IF \E j \in (k + 1)..MaxSlots : m[j] # "free"
  THEN CHOOSE j \in (k + 1)..MaxSlots :
         m[j] # "free" /\ \A l \in (k + 1)..(j - 1) : m[l] = "free"
  ELSE 0

(* Agent.healthCheck: performHealthCheck throws for an agent in ERROR; its *)
(* 100 ms delay always ends before the 5000 ms of the timeout              *)
healthCheck(m, k) == m[k] # "error"

(* handleUnhealthyAgent: the agent is stopped and deleted when its         *)
(* restarts are used up, and a restart timer is set otherwise              *)
handleUnhealthyAgent(m, h, k) ==
  IF h.restartCount[k] >= maxRestarts
  THEN [m |-> [m EXCEPT ![k] = "free"],
        h |-> [h EXCEPT !.failed = @ \cup {k}]]
  ELSE [m |-> m,
        h |-> [h EXCEPT !.restarts[k] =
                 restartDelay * backoffMultiplier ^ h.restartCount[k]]]

(* The interval timer fires: performHealthChecks starts the probe of the   *)
(* first agent of the map                                                  *)
HealthTimer ==
  /\ health.timer
  /\ health.round = 0
  /\ NextAgent(magents, 0) # 0
  /\ health' = [health EXCEPT !.round = NextAgent(magents, 0)]
  /\ ret' = NoCall
  /\ emitted' = <<>>
  /\ UNCHANGED <<ovars, done, cstate, cscale, cstop, mvars, hive, backoff>>

(* The probe of the agent of slot k ends: the body of the loop of          *)
(* performHealthChecks, and the probe of the next agent starts             *)
HealthProbe(k) ==
  /\ health.round = k
  /\ k # 0
  /\ LET healthy == healthCheck(magents, k)
         r == IF ~healthy /\ magents[k] # "error"
              THEN handleUnhealthyAgent(magents, health, k)
              ELSE [m |-> magents, h |-> health]
     IN /\ magents' = r.m
        /\ health' = [r.h EXCEPT !.round = NextAgent(r.m, k)]
        /\ ret' = [op |-> "healthCheck", arg |-> k,
                   out |-> IF healthy THEN "healthy" ELSE "unhealthy"]
  /\ emitted' = <<>>
  /\ UNCHANGED <<ovars, done, cstate, cscale, cstop, mcalls, hive, backoff>>

----------------------------------------------------------------------------
(* HiveMind *)

Keys == {"k1", "k2", "k3"}
Values == {"v1", "v2"}

(* config.maxMemorySize *)
maxMemorySize == 2

(* Confidences are fractions; the model keeps them in units of 1 / Scale,  *)
(* and n / 0 (Infinity in JavaScript) as a number above every other        *)
Scale == 2
Infinity == 100
Confidences == {1, 2}

(* A KnowledgeEntry: value, confidence, the keys of votes, the rank of its *)
(* timestamp; history: who shared the value it holds, and with which       *)
(* confidence argument                                                     *)
NoEntry == [value |-> "null", confidence |-> 0, votes |-> {}, stamp |-> 0,
            by |-> "none", at |-> 0]

(* config.consensusThreshold, as the coordinator sets it, in hundredths *)
consensusThreshold == 66

RequestIds == {1}
Voters == AgentIds

(* The knowledge key 'consensus:' + topic of the topic the requests are    *)
(* about                                                                   *)
ConsensusKey == "k3"

NoVote == [value |-> "none", confidence |-> 0]

(* A ConsensusRequest: status, votes, and the state of the timer that      *)
(* requestConsensus sets for the deadline: "set" before the deadline,      *)
(* "due" once the deadline has passed, "fired" after the callback          *)
NoRequest == [status |-> "none", votes |-> [a \in Voters |-> NoVote],
              timer |-> "none"]

(* The HiveMind after its constructor.  stored: the hive:knowledge: keys   *)
(* of the MemoryStore; the store keeps the entry objects themselves, so a  *)
(* stored entry that is still in the knowledge map is that very object and *)
(* detached holds only the stored objects that no longer are               *)
NewHive ==
  [agents |-> {}, active |-> FALSE,
   knowledge |-> [k \in Keys |-> NoEntry],
   stored |-> {}, detached |-> [k \in Keys |-> NoEntry],
   requests |-> [r \in RequestIds |-> NoRequest]]

KnowledgeSize(h) == Cardinality({k \in Keys : h.knowledge[k] # NoEntry})

(* votes.size / agents.size *)
Ratio(v, n) == IF n = 0 THEN Infinity ELSE (v * Scale) \div n

(* Timestamps are kept as ranks among the entry objects that exist *)
Stamps(h) ==
  {h.knowledge[k].stamp : k \in Keys} \cup {h.detached[k].stamp : k \in Keys}

Rank(S, x) == Cardinality({y \in S \ {0} : y < x}) + IF x = 0 THEN 0 ELSE 1

Ranked(h) ==
  LET S == Stamps(h)
  IN [h EXCEPT
        !.knowledge = [k \in Keys |->
           IF h.knowledge[k] = NoEntry THEN NoEntry
           ELSE [h.knowledge[k] EXCEPT !.stamp = Rank(S, @)]],
        !.detached = [k \in Keys |->
           IF h.detached[k] = NoEntry THEN NoEntry
           ELSE [h.detached[k] EXCEPT !.stamp = Rank(S, @)]]]

Now(h) == 1 + Cardinality(Stamps(h))

(* knowledge.delete(key): an entry object the store also holds lives on    *)
(* there                                                                   *)
KnowledgeDelete(h, k) ==
  [h EXCEPT !.knowledge[k] = NoEntry,
            !.detached[k] = IF k \in h.stored /\ h.detached[k] = NoEntry
                            THEN h.knowledge[k] ELSE @]

(* mergeKnowledge(existing, new_) *)
mergeKnowledge(h, a, k, v, c) ==
  LET votes == h.knowledge[k].votes \cup {a}
      confidence == Ratio(Cardinality(votes), Cardinality(h.agents))
      e1 == [h.knowledge[k] EXCEPT !.votes = votes,
                                   !.confidence = confidence]
  IN [h EXCEPT !.knowledge[k] =
        IF c > confidence
        THEN [e1 EXCEPT !.value = v, !.stamp = Now(h), !.by = a, !.at = c]
        ELSE e1]

(* The entry enforceMemoryLimits removes first: lowest confidence, then    *)
(* oldest                                                                  *)
(* An order that looks at the age only *)
BeforeByAge(e, f) == e.stamp < f.stamp

Before(e, f) ==
  \/ e.confidence < f.confidence
  \/ e.confidence = f.confidence /\ e.stamp < f.stamp

FirstToRemove(h) ==
  CHOOSE k \in Keys :
    /\ h.knowledge[k] # NoEntry
    /\ \A j \in Keys \ {k} :
         h.knowledge[j] # NoEntry => Before(h.knowledge[k], h.knowledge[j])

RECURSIVE enforceMemoryLimits(_)
enforceMemoryLimits(h) ==
  IF KnowledgeSize(h) <= maxMemorySize THEN h
  ELSE enforceMemoryLimits(KnowledgeDelete(h, FirstToRemove(h)))

(* share(agentId, key, value, confidence); detectPatterns only touches the *)
(* pattern map, which nothing here reads                                   *)
share(h, a, k, v, c) ==
  LET h1 == IF h.knowledge[k] # NoEntry
            THEN mergeKnowledge(h, a, k, v, c)
            ELSE [h EXCEPT !.knowledge[k] =
                    [value |-> v, confidence |-> c, votes |-> {a},
                     stamp |-> Now(h), by |-> a, at |-> c]]
  IN Ranked(enforceMemoryLimits(h1))

(* retrieve(key), for entries without ttl *)
retrieve(h, k) == h.knowledge[k].value

(* registerAgent: shareKnowledge only emits an event *)
hiveRegisterAgent(h, a) == [h EXCEPT !.agents = @ \cup {a}]

(* unregisterAgent and cleanupAgentData *)
hiveUnregisterAgent(h, a) ==
  LET left == h.agents \ {a}
  IN [h EXCEPT
        !.agents = left,
        !.knowledge = [k \in Keys |->
           IF h.knowledge[k] = NoEntry THEN NoEntry
           ELSE LET votes == h.knowledge[k].votes \ {a}
                IN [h.knowledge[k] EXCEPT
                      !.votes = votes,
                      !.confidence =
                         IF left # {}
                         THEN Ratio(Cardinality(votes), Cardinality(left))
                         ELSE @]]]

(* persistKnowledge: memory.set of every entry object of the map *)
persistKnowledge(h) ==
  [h EXCEPT
     !.stored = @ \cup {k \in Keys : h.knowledge[k] # NoEntry},
     !.detached = [k \in Keys |->
        IF h.knowledge[k] # NoEntry THEN NoEntry ELSE h.detached[k]]]

(* loadKnowledge: knowledge.set(entry.key, entry) for every stored entry,  *)
(* with no look at the limit                                               *)
loadKnowledge(h) ==
  [h EXCEPT
     !.knowledge = [k \in Keys |->
        IF k \in h.stored /\ h.detached[k] # NoEntry
        THEN h.detached[k] ELSE h.knowledge[k]],
     !.detached = [k \in Keys |-> NoEntry]]

HiveCall(h, r) ==
  /\ hive' = h
  /\ emitted' = <<>>
  /\ ret' = r
  /\ UNCHANGED <<ovars, done, cstate, cscale, cstop, mvars, backoff, health>>

HiveStep(h) == HiveCall(h, NoCall)

HiveRegisterAgent(a) ==
  /\ a \notin hive.agents
  /\ HiveStep(hiveRegisterAgent(hive, a))

HiveUnregisterAgent(a) ==
  /\ a \in hive.agents
  /\ HiveStep(hiveUnregisterAgent(hive, a))

Share(a, k, v, c) == HiveStep(share(hive, a, k, v, c))

(* activate: returns at once when active; the sync timer is not modelled   *)
Activate ==
  /\ ~hive.active
  /\ HiveStep(Ranked([loadKnowledge(hive) EXCEPT !.active = TRUE]))

(* deactivate *)
Deactivate ==
  /\ hive.active
  /\ HiveStep(Ranked([persistKnowledge(hive) EXCEPT !.active = FALSE]))

(* Consensus *)

VoteCount(q) == Cardinality({a \in Voters : q.votes[a] # NoVote})

Approvals(q) == Cardinality({a \in Voters : q.votes[a].value = "yes"})

(* An outcome that approves as soon as one vote approves *)
OutcomeAnyApproval(h, q) ==
  IF 2 * VoteCount(q) < Cardinality(h.agents) THEN "timeout"
  ELSE IF Approvals(q) > 0 THEN "approved" ELSE "rejected"

(* The outcome finalizeConsensus determines *)
Outcome(h, q) ==
  IF 2 * VoteCount(q) < Cardinality(h.agents) THEN "timeout"
  ELSE IF VoteCount(q) > 0
          /\ 100 * Approvals(q) >= consensusThreshold * VoteCount(q)
       THEN "approved"
       ELSE "rejected"

(* finalizeConsensus(requestId): the result is shared as knowledge, the    *)
(* status standing for the object shared                                   *)
finalizeConsensus(h, r) ==
  IF h.requests[r].status # "pending" THEN h
  ELSE LET status == Outcome(h, h.requests[r])
       IN share([h EXCEPT !.requests[r].status = status],
                "hive-mind", ConsensusKey, status, Scale)

(* requestConsensus: the request gets a new id *)
requestConsensus(h, r) ==
  [h EXCEPT !.requests[r] =
     [status |-> "pending", votes |-> [a \in Voters |-> NoVote],
      timer |-> "set"]]

(* vote throws unless the request is pending *)
voteThrows(h, r) == h.requests[r].status # "pending"

(* A vote that does not look at the status of the request *)
voteAnyStatus(h, a, r, value, c) ==
  LET h1 == [h EXCEPT !.requests[r].votes[a] =
                        [value |-> value, confidence |-> c]]
  IN IF 100 * VoteCount(h1.requests[r])
          >= Cardinality(h1.agents) * consensusThreshold
     THEN finalizeConsensus(h1, r) ELSE h1

(* vote(agentId, requestId, value, confidence) *)
vote(h, a, r, value, c) ==
  IF voteThrows(h, r) THEN h
  ELSE LET h1 == [h EXCEPT !.requests[r].votes[a] =
                             [value |-> value, confidence |-> c]]
       IN IF 100 * VoteCount(h1.requests[r])
               >= Cardinality(h1.agents) * consensusThreshold
          THEN finalizeConsensus(h1, r) ELSE h1

RECURSIVE PendingLoop(_, _)
PendingLoop(h, todo) ==
  IF todo = {} THEN h
  ELSE LET r == CHOOSE x \in todo : \A y \in todo : x <= y
       IN PendingLoop(
            IF h.requests[r].status = "pending"
               /\ h.requests[r].timer \in {"due", "fired"}
            THEN finalizeConsensus(h, r) ELSE h,
            todo \ {r})

(* processPendingConsensus: the pending requests whose deadline has passed *)
processPendingConsensus(h) == PendingLoop(h, RequestIds)

RequestConsensus(r) ==
  /\ hive.requests[r] = NoRequest
  /\ HiveCall(requestConsensus(hive, r),
              [op |-> "requestConsensus", arg |-> r, out |-> "ok"])

Vote(a, r, value, c) ==
  HiveCall(vote(hive, a, r, value, c),
           [op |-> "vote", arg |-> r,
            out |-> IF voteThrows(hive, r) THEN "throw" ELSE "ok"])

(* The deadline of a request passes *)
DeadlinePasses(r) ==
  /\ hive.requests[r].timer = "set"
  /\ HiveStep([hive EXCEPT !.requests[r].timer = "due"])

(* The callback of the timer requestConsensus has set *)
DeadlineTimer(r) ==
  /\ hive.requests[r].timer = "due"
  /\ HiveStep(finalizeConsensus(
                [hive EXCEPT !.requests[r].timer = "fired"], r))

(* sync, run by the interval timer activate sets: no entry has a ttl; the  *)
(* state is persisted when the clock reads a multiple of ten               *)
Sync(persist) ==
  /\ hive.active
  /\ LET h1 == processPendingConsensus(hive)
     IN HiveStep(Ranked(IF persist THEN persistKnowledge(h1) ELSE h1))

----------------------------------------------------------------------------
NoBackoff == [strategy |-> "exponential", initialDelay |-> InitialDelay,
              maxDelay |-> MaxDelay, attempts |-> 0, delay |-> -1]

(* The policies and attempt counts calculateRetryDelay is applied to *)
BackoffInputs ==
  [strategy : Strategies, initialDelay : {2, 4}, maxDelay : {2, 4, 8},
   attempts : 1..MaxAttempts, delay : {-1}]

Constructed ==
  /\ inst = [i \in 1..MaxInst |-> Free]
  /\ results = [i \in 1..MaxInst |-> NoResult]
  /\ tasks = [id \in TaskIds |-> 0]
  /\ order = <<>>
  /\ queue = EmptyQueue
  /\ agents = {}
  /\ astate = [a \in AgentIds |-> "idle"]
  /\ acur = [a \in AgentIds |-> 0]
  /\ running = FALSE
  /\ timer = FALSE
  /\ immediates = 0
  /\ checkpoint = [has |-> FALSE, tasks |-> <<>>]
  /\ cstate = "initializing"
  /\ cscale = "none"
  /\ cstop = FALSE
  /\ magents = [k \in 1..MaxSlots |-> "free"]
  /\ mcalls = [c \in 1..MaxCalls |-> NoScaleUp]
  /\ hive = NewHive
  /\ health = NoHealth
  /\ done = [id \in TaskIds |-> NoResult]
  /\ emitted = <<>>
  /\ ret = NoCall

Init == Constructed /\ backoff = NoBackoff

(* A failed attempt of a task under any policy *)
InitBackoff == Constructed /\ backoff \in BackoffInputs

(* handleTaskFailure computes the delay of the retry *)
CalculateRetryDelay ==
  /\ backoff.delay = -1
  /\ backoff.attempts > 0
  /\ backoff' = [backoff EXCEPT !.delay =
                   retryDelay(backoff.strategy, backoff.initialDelay,
                              backoff.maxDelay, backoff.attempts)]
  /\ UNCHANGED <<ovars, done, cstate, cscale, cstop, mvars, hive, health,
                 emitted, ret>>

NextBackoff == CalculateRetryDelay

SpecBackoff == InitBackoff /\ [][NextBackoff]_vars

(* The scheduler: submissions, agents joining, timer and setImmediate runs *)
(* of processTasks, executions ending, time passing                        *)
Scheduler(Inputs, Agents) ==
  \/ Start
  \/ \E t \in Inputs : SubmitTask(t)
  \/ \E a \in Agents : RegisterAgent(a)
  \/ Tick
  \/ Immediate
  \/ \E a \in Agents : \E st \in {"completed", "failed"} : AgentResult(a, st)
  \/ Advance

(* A chain of three tasks and one agent that can run all of them *)
Next == Scheduler(ChainInputs, {"a2"})

Spec == Init /\ [][Next]_vars

NextPrio == Scheduler(FlatInputs, AgentIds)

SpecPrio == Init /\ [][NextPrio]_vars

NextFifo == Scheduler(FifoInputs, AgentIds)

SpecFifo == Init /\ [][NextFifo]_vars

NextCancel ==
  \/ Scheduler(PairInputs, AgentIds)
  \/ \E t \in PairInputs : CancelTask(t.id)

SpecCancel == Init /\ [][NextCancel]_vars

NextUnregister ==
  \/ Scheduler(PairInputs, AgentIds)
  \/ \E a \in AgentIds : UnregisterAgent(a)

SpecUnregister == Init /\ [][NextUnregister]_vars

(* Checkpoint and restore, with executions that end before any timer runs *)
NextRestore ==
  \/ Start
  \/ \E t \in PairInputs : SubmitTask(t)
  \/ RegisterAgent("a2")
  \/ Tick
  \/ Immediate
  \/ \E st \in {"completed", "failed"} : AgentResult("a2", st)
  \/ Serialize
  \/ Restore

SpecRestore == Init /\ [][NextRestore]_vars

(* Retries: two tasks that wait for one, with executions that end before   *)
(* any timer runs, so that no attempt times out                            *)
NextRetry ==
  \/ Start
  \/ \E t \in FanInputs : SubmitTask(t)
  \/ RegisterAgent("a2")
  \/ Tick
  \/ Immediate
  \/ \E st \in {"completed", "failed"} : AgentResult("a2", st)

SpecRetry == Init /\ [][NextRetry]_vars

(* Progress: executions that complete, and timers that keep firing.  The   *)
(* interval timer of start(), the setImmediate callbacks and the timer     *)
(* that ends Agent.performTask run whenever they are due; callers are free *)
(* to stay away                                                            *)
NextLive ==
  \/ Start
  \/ \E t \in ChainInputs : SubmitTask(t)
  \/ RegisterAgent("a2")
  \/ Tick
  \/ Immediate
  \/ AgentResult("a2", "completed")

(* Commit(s0) with ret' = r is possible and changes the state *)
Moves(s0, r) ==
  LET s == Normalize(s0)
  IN /\ \A i \in DOMAIN s.inst : s.inst[i].attempts <= MaxAttempts
     /\ QueueSize(s.queue) <= MaxQueued
     /\ <<s.inst, s.results, s.tasks, s.order, s.queue, s.astate, s.acur,
          s.done, s.emitted, r>>
        # <<inst, results, tasks, order, queue, astate, acur, done, emitted,
            ret>>

(* ENABLED <<Tick>>_vars, ENABLED <<Immediate>>_vars and                    *)
(* ENABLED <<AgentResult(a, st)>>_vars, written out as state predicates     *)
TickEnabled ==
  timer /\ running /\ \E s \in processTasks(State) : Moves(s, NoCall)

ImmediateEnabled ==
  /\ immediates > 0
  /\ running =>
       \E s \in processTasks(State) :
         LET n == Normalize(s)
         IN /\ \A i \in DOMAIN n.inst : n.inst[i].attempts <= MaxAttempts
            /\ QueueSize(n.queue) <= MaxQueued

(* Weak fairness of the interval timer and of setImmediate, with ENABLED   *)
(* written out                                                             *)
TickFair == []<>(~TickEnabled) \/ []<><<Tick>>_vars

ImmediateFair == []<>(~ImmediateEnabled) \/ []<><<Immediate>>_vars

SpecLive ==
  /\ Init
  /\ [][NextLive]_vars
  /\ TickFair
  /\ ImmediateFair
  /\ WF_vars(AgentResult("a2", "completed"))

(* A stream of tasks.  The instance of slot i is garbage once the task map, *)
(* the queue and the agents no longer refer to it: handleTaskCompletion has *)
(* deleted the completed task from the map.                                 *)
Unreferenced(i) ==
  /\ inst[i].status # "free"
  /\ \A id \in TaskIds : tasks[id] # i
  /\ ~InQueue(queue, i)
  /\ \A a \in AgentIds : acur[a] # i

Released(s, i) == [s EXCEPT !.inst[i] = Free, !.results[i] = NoResult]

(* submitTask with the next task of the stream: it takes the place (and    *)
(* the id) of an earlier task of the stream that has left the task map     *)
SubmitNext(t) ==
  /\ Unreferenced(t.id)
  /\ IF QueueFull(State)
     THEN /\ ret' = [op |-> "submitTask", arg |-> t.id, out |-> "throw"]
          /\ emitted' = <<>>
          /\ UNCHANGED <<inst, results, tasks, order, queue, astate, acur,
                         done>>
     ELSE /\ \E s \in {submitTask(Released(State, t.id), t)} : Commit(s)
          /\ ret' = [op |-> "submitTask", arg |-> t.id, out |-> "ok"]
  /\ UNCHANGED <<agents, running, timer, immediates, checkpoint, cvars>>

(* Callers that keep submitting tasks of both tiers to one agent that can  *)
(* execute them all; timers and executions as in SpecLive                   *)
NextStream ==
  \/ Start
  \/ \E t \in FlatInputs : SubmitTask(t)
  \/ \E t \in FlatInputs : SubmitNext(t)
  \/ RegisterAgent("a2")
  \/ Tick
  \/ Immediate
  \/ AgentResult("a2", "completed")

SpecStream ==
  /\ Init
  /\ [][NextStream]_vars
  /\ TickFair
  /\ ImmediateFair
  /\ WF_vars(AgentResult("a2", "completed"))

(* The agent manager with its health rounds; an initialization may fail *)
NextHealth ==
  \/ ManagerStart
  \/ \E c \in 1..MaxCalls : \E count \in 1..2 : ScaleUp(c, count)
  \/ \E c \in 1..MaxCalls : AgentInitialized(c)
  \/ \E c \in 1..MaxCalls : AgentInitializeThrows(c)
  \/ HealthTimer
  \/ \E k \in 1..MaxSlots : HealthProbe(k)

SpecHealth == Init /\ [][NextHealth]_vars

(* An agent of the scheduler that is stopped while it executes *)
NextStop ==
  \/ Start
  \/ \E t \in FifoInputs : SubmitTask(t)
  \/ RegisterAgent("a2")
  \/ Tick
  \/ Immediate
  \/ \E st \in {"completed", "failed"} : AgentResult("a2", st)
  \/ AgentStop("a2")
  \/ \E expired \in BOOLEAN : AgentStopEnd("a2", expired)

SpecStop == Init /\ [][NextStop]_vars

(* The coordinator with its autoscaler *)
NextAuto ==
  \/ \E ok \in BOOLEAN : SwarmInitialize(ok)
  \/ SwarmStart
  \/ SwarmScaleUpBegin
  \/ SwarmScaleUpEnd
  \/ \E t \in FlatInputs : \E valid \in BOOLEAN : SwarmSubmitTask(t, valid)
  \/ Tick
  \/ Immediate
  \/ \E a \in AgentIds : AgentResult(a, "completed")
  \/ \E peak \in 0..2 : AutoScale(peak)

SpecAuto == Init /\ [][NextAuto]_vars

(* Callers that submit tasks depending on each other *)
NextCycle == Scheduler(CycleInputs, {"a2"})

SpecCycle == Init /\ [][NextCycle]_vars

(* Callers that submit an id again, with executions that end before any  *)
(* timer runs                                                              *)
NextDup ==
  \/ Start
  \/ \E t \in PairInputs : SubmitTask(t)
  \/ \E t \in PairInputs : ResubmitTask(t)
  \/ RegisterAgent("a2")
  \/ Tick
  \/ Immediate
  \/ \E st \in {"completed", "failed"} : AgentResult("a2", st)

SpecDup == Init /\ [][NextDup]_vars

(* Tasks with resource and type requirements, with executions that end   *)
(* before any timer runs                                                    *)
NextPick ==
  \/ Start
  \/ \E t \in PickInputs : SubmitTask(t)
  \/ \E a \in AgentIds : RegisterAgent(a)
  \/ Tick
  \/ Immediate
  \/ \E a \in AgentIds : \E st \in {"completed", "failed"} : AgentResult(a, st)

SpecPick == Init /\ [][NextPick]_vars

(* The knowledge map of the hive mind: agents joining and leaving, and    *)
(* their shares under keys few enough to stay within the limit             *)
SharedKeys == {"k1", "k2"}

NextKnowledge ==
  \/ \E a \in AgentIds : HiveRegisterAgent(a)
  \/ \E a \in AgentIds : HiveUnregisterAgent(a)
  \/ \E a \in AgentIds : \E k \in SharedKeys : \E v \in Values :
       \E c \in Confidences : Share(a, k, v, c)

SpecKnowledge == Init /\ [][NextKnowledge]_vars

(* share as a caller sees it: memory:pruned tells that entries were        *)
(* removed                                                                 *)
ShareCall(a, k, v, c) ==
  HiveCall(share(hive, a, k, v, c),
           [op |-> "share", arg |-> 0,
            out |-> IF KnowledgeSize(hive)
                         + (IF hive.knowledge[k] = NoEntry THEN 1 ELSE 0)
                       > maxMemorySize
                    THEN "memory:pruned" ELSE "ok"])

(* Shares of more keys than the memory holds *)
NextEvict ==
  \/ \E a \in AgentIds : HiveRegisterAgent(a)
  \/ \E a \in AgentIds : \E k \in Keys : \E v \in Values :
       \E c \in Confidences : ShareCall(a, k, v, c)

SpecEvict == Init /\ [][NextEvict]_vars

(* The knowledge map and the memory store: one agent's shares, and the     *)
(* persistence around deactivate and activate                              *)
NextPersist ==
  \/ HiveRegisterAgent("a1")
  \/ \E k \in Keys : \E c \in Confidences : Share("a1", k, "v1", c)
  \/ Activate
  \/ Deactivate

SpecPersist == Init /\ [][NextPersist]_vars

(* Consensus requests: votes, the deadline timer, the periodic sync, and   *)
(* agents joining and leaving                                              *)
NextConsensus ==
  \/ \E a \in AgentIds : HiveRegisterAgent(a)
  \/ \E a \in AgentIds : HiveUnregisterAgent(a)
  \/ \E r \in RequestIds : RequestConsensus(r)
  \/ \E a \in Voters : \E r \in RequestIds : \E value \in {"yes", "no"} :
       \E c \in Confidences : Vote(a, r, value, c)
  \/ \E r \in RequestIds : DeadlinePasses(r)
  \/ \E r \in RequestIds : DeadlineTimer(r)
  \/ Activate
  \/ Deactivate
  \/ \E persist \in BOOLEAN : Sync(persist)

SpecConsensus == Init /\ [][NextConsensus]_vars

(* The agent manager with callers whose scaleUp calls overlap *)
NextManager ==
  \/ \E c \in 1..MaxCalls : \E count \in 1..2 : ScaleUp(c, count)
  \/ \E c \in 1..MaxCalls : AgentInitialized(c)
  \/ \E count \in 1..2 : ScaleDown(count)

SpecManager == Init /\ [][NextManager]_vars

(* The coordinator: its lifecycle around the orchestrator, with executions *)
(* that end before any timer runs                                           *)
NextSwarm ==
  \/ \E ok \in BOOLEAN : SwarmInitialize(ok)
  \/ SwarmStart
  \/ SwarmPause
  \/ SwarmResume
  \/ SwarmStopBegin
  \/ SwarmStopEnd
  \/ SwarmScaleUpBegin
  \/ SwarmScaleUpEnd
  \/ \E count \in 1..2 : SwarmScaleDown(count)
  \/ \E t \in SwarmInputs : \E valid \in BOOLEAN : SwarmSubmitTask(t, valid)
  \/ Tick
  \/ Immediate
  \/ \E a \in AgentIds : AgentResult(a, "completed")

SpecSwarm == Init /\ [][NextSwarm]_vars

----------------------------------------------------------------------------
(* Properties *)

Started(e) == e.ev = "task:started"
Assigned(e) == e.ev = "task:assigned"
PutBack(e) == e.ev = "put-back"

(* C1: dependency safety.  Whenever task:started is emitted for a task,    *)
(* every id of the dependency list it was submitted with has status        *)
(* COMPLETED at that moment.  Checked under SpecRestore.                    *)
C1_DependencySafety ==
  \A n \in 1..Len(emitted) : Started(emitted[n]) => emitted[n].ok

(* C2: at most one assignment.  At any instant and for every task, at most *)
(* one agent has it as currentTask.  Checked under SpecPrio.                *)
C2_AtMostOneAgent ==
  \A id \in TaskIds :
     Cardinality({a \in AgentIds : acur[a] # 0 /\ inst[acur[a]].id = id}) <= 1

(* C3: strict priority.  A task is never assigned while a task of a higher *)
(* tier is in the ready queue, whatever run of processTasks assigns it.    *)
(* Checked under SpecPrio.                                                  *)
C3_StrictPriority ==
  \A n \in 1..Len(emitted) : Assigned(emitted[n]) => emitted[n].ok

(* C3 witness: the low task 2 was submitted before the high task 1, both   *)
(* were in the queue, and one run of processTasks assigned 1 and then 2.   *)
C3_Witness ==
  /\ order = <<2, 1>>
  /\ \E m, n \in 1..Len(emitted) :
       /\ m < n
       /\ Assigned(emitted[m]) /\ emitted[m].id = 1
       /\ Assigned(emitted[n]) /\ emitted[n].id = 2

(* C4: tier FIFO.  A task popped while the strategy returns no agent is    *)
(* put back at the head of its tier, so that it stays ahead of the tasks   *)
(* of its priority enqueued after it.  Checked under SpecFifo.              *)
C4_PutBackAtHead ==
  \A n \in 1..Len(emitted) : PutBack(emitted[n]) => emitted[n].ok

(* C5: retry bound.  For every task, attempts <= maxRetries + 1.  Checked  *)
(* under SpecUnregister.                                                    *)
C5_RetryBound ==
  \A i \in DOMAIN inst : inst[i].attempts <= MaxRetries + 1

(* C6: terminal states are final.  Once the status of a task is terminal   *)
(* it never changes again.  Checked under SpecCancel.                       *)
C6_TerminalFinal ==
  [][\A i \in DOMAIN inst :
       IsTerminal(inst[i]) => inst'[i].status = inst[i].status]_vars

(* C7: result retention.  After an execution of a task returned COMPLETED, *)
(* getTaskStatus returns COMPLETED and getTaskResult returns that result   *)
(* in every later state.  Checked under Spec.                               *)
C7_ResultRetention ==
  \A id \in TaskIds :
     done[id] # NoResult =>
       /\ getTaskStatus(State, id) = "completed"
       /\ getTaskResult(State, id) = done[id]

(* C8: cascade failure.  Once a task failed with its retries used up,      *)
(* every descendant of it that had not been started is failed, is not in   *)
(* the ready queue and is never assigned.  Checked under Spec.              *)
C8_CascadeFailure ==
  \A i \in DOMAIN inst :
     inst[i].doomed =>
       /\ inst[i].status = "failed"
       /\ ~InQueue(queue, i)
       /\ inst[i].attempts = 0

(* C9: cancellation.  A task cancelled before its end, and each dependent  *)
(* cancelled with it, stays CANCELLED, out of the ready queue and is never *)
(* assigned again; right after cancelTask returns, every descendant of the *)
(* task is CANCELLED.  Checked under SpecCancel.                            *)
C9_Cancellation ==
  /\ \A i \in DOMAIN inst :
       inst[i].cancelled >= 0 =>
         /\ inst[i].status = "cancelled"
         /\ ~InQueue(queue, i)
         /\ inst[i].attempts = inst[i].cancelled
  /\ (ret.op = "cancelTask" /\ tasks[ret.arg] # 0
        /\ inst[tasks[ret.arg]].cancelled >= 0)
     => \A d \in Descendants(State, ret.arg) :
           getTaskStatus(State, d) = "cancelled"

(* What a call of SwarmCoordinator.submitTask that throws leaves behind:   *)
(* the task map and the ready queue as they were, no task event recorded   *)
SubmitThrew ==
  /\ ret'.out = "throw"
  /\ tasks' = tasks
  /\ queue' = queue
  /\ \A n \in 1..Len(emitted') : emitted'[n].ev # "swarm:task_assigned"

SubmitAccepted ==
  /\ ret'.out = "ok"
  /\ tasks'[ret'.arg] # 0
  /\ \E n \in 1..Len(emitted') :
       emitted'[n].ev = "swarm:task_assigned" /\ emitted'[n].id = ret'.arg

(* C10: submit state gate.  SwarmCoordinator.submitTask throws whenever    *)
(* the coordinator is not RUNNING, and then the task map and the ready     *)
(* queue of the orchestrator are unchanged and no task event is recorded.  *)
(* In state RUNNING a valid task is accepted and its id returned, unless   *)
(* the ready queue already holds maxQueueSize tasks: then submitTask       *)
(* throws the same way.  Checked under SpecSwarm.                           *)
C10_SubmitGate ==
  [][ret'.op = "swarm.submitTask" =>
       IF cstate # "running" \/ QueueSize(queue) >= MaxQueueSize
       THEN SubmitThrew
       ELSE SubmitAccepted]_vars

(* C10 witness: a paused swarm that holds tasks has just rejected one *)
C10_Witness ==
  /\ cstate = "paused"
  /\ ret.op = "swarm.submitTask"
  /\ ret.out = "throw"
  /\ \E id \in TaskIds : tasks[id] # 0

(* C10 as stated: in state RUNNING every valid task is accepted *)
C10_SubmitGateOriginal ==
  [][ret'.op = "swarm.submitTask" =>
       IF cstate # "running"
       THEN SubmitThrew
       ELSE SubmitAccepted]_vars

(* The tasks of the map that are pending, assigned or running *)
LiveCount(s) ==
  Cardinality({id \in TaskIds :
     /\ s.tasks[id] # 0
     /\ s.inst[s.tasks[id]].status \in {"pending", "assigned", "running"}})

(* C11: backpressure.  With pending plus running tasks at maxQueueSize the *)
(* next submitTask throws and leaves the task map, the dependents and the  *)
(* ready queue as they were; below maxQueueSize a submission is accepted.  *)
(* Stated for Spec.                                                         *)
C11_Backpressure ==
  [][ret'.op = "submitTask" =>
       IF LiveCount(State) >= MaxQueueSize
       THEN /\ ret'.out = "throw"
            /\ tasks' = tasks
            /\ queue' = queue
            /\ inst' = inst
       ELSE ret'.out = "ok"]_vars

(* C12: duplicate-id submit.  submitTask of an id that is in the map with *)
(* a terminal status is rejected; of an id that is live it returns         *)
(* normally and leaves the stored task, its status, attempts, results and  *)
(* dependents, and the ready queue as they were.  Stated for SpecDup.      *)
C12_DuplicateSubmit ==
  [][(ret'.op = "submitTask" /\ tasks[ret'.arg] # 0) =>
       LET i == tasks[ret'.arg]
       IN IF IsTerminal(inst[i])
          THEN ret'.out = "throw" /\ tasks' = tasks
          ELSE /\ ret'.out = "ok"
               /\ tasks'[ret'.arg] = i
               /\ inst'[i].status = inst[i].status
               /\ inst'[i].attempts = inst[i].attempts
               /\ inst'[i].dependents = inst[i].dependents
               /\ results'[inst[i].res] = results[inst[i].res]
               /\ queue' = queue]_vars

(* The ids task id depends on, directly or through other stored tasks *)
RECURSIVE DepClosureFrom(_, _)
DepClosureFrom(s, S) ==
  LET more == UNION {s.inst[s.tasks[d]].dependencies :
                       d \in {x \in S : s.tasks[x] # 0}}
  IN IF more \subseteq S THEN S ELSE DepClosureFrom(s, S \cup more)

DepClosure(s, id) == DepClosureFrom(s, s.inst[s.tasks[id]].dependencies)

(* C13: acyclic graph.  submitTask rejects a task whose dependencies close *)
(* a cycle, so no stored task depends on itself, directly or through other *)
(* stored tasks.  Stated for SpecCycle.                                     *)
C13_Acyclic ==
  \A id \in TaskIds : tasks[id] # 0 => id \notin DepClosure(State, id)

(* C14: coordinator lifecycle.  The coordinator state changes only along   *)
(* Initializing -> Ready, Ready -> Running, Running <-> Paused, ->         *)
(* Completing -> Completed, or -> Failed; start() outside READY, pause()   *)
(* outside RUNNING and resume() outside PAUSED throw and leave the state   *)
(* and the subcomponents unchanged.  A scaling excursion Running ->        *)
(* Scaling -> Running is counted as staying Running.  Stated for SpecSwarm. *)
C14_Lifecycle ==
  [][LET LifecycleStep(c, d) ==
           \/ c = "initializing" /\ d = "ready"
           \/ c = "ready" /\ d = "running"
           \/ c = "running" /\ d = "paused"
           \/ c = "paused" /\ d = "running"
           \/ d = "completing"
           \/ c = "completing" /\ d = "completed"
           \/ d = "failed"
           \/ c = "running" /\ d = "scaling"
           \/ c = "scaling" /\ d = "running"
         LifecycleCall(op, c) ==
           \/ op = "swarm.start" /\ c # "ready"
           \/ op = "swarm.pause" /\ c # "running"
           \/ op = "swarm.resume" /\ c # "paused"
     IN /\ cstate' # cstate => LifecycleStep(cstate, cstate')
        /\ LifecycleCall(ret'.op, cstate) =>
              /\ ret'.out = "throw"
              /\ UNCHANGED <<ovars, cvars>>]_vars

(* C15: stop is terminal.  Once stop() has brought the coordinator to      *)
(* COMPLETED, no later or concurrently finishing operation changes the     *)
(* coordinator state again, and no task is assigned.  Stated for SpecSwarm. *)
C15_StopTerminal ==
  [][cstate = "completed" =>
       /\ cstate' = "completed"
       /\ \A n \in 1..Len(emitted') : ~Assigned(emitted'[n])]_vars

C18_ScaleDownIdleOnly ==
  [][ret'.op = "swarm.scaleDown" =>
       \A a \in agents \ agents' : astate[a] = "idle" /\ acur[a] = 0]_vars

(* scaleDown has just removed the one idle agent while the other agent     *)
(* stays registered and goes on with its task                               *)
C18_Witness ==
  /\ ret.op = "swarm.scaleDown" /\ ret.arg = 1
  /\ Cardinality(agents) = 1
  /\ \A a \in agents : astate[a] = "busy" /\ inst[acur[a]].status = "running"

(* C17: worker ceiling.  scaleUp(n) with currentActive + n > maxAgents    *)
(* throws and creates no agent, and the number of agents that are not      *)
(* TERMINATED never exceeds maxAgents, overlapping scaleUp calls           *)
(* included.  Stated for SpecManager.                                       *)
C17_WorkerCeiling ==
  [][/\ (ret'.op = "scaleUp" /\ getActiveCount(magents) + ret'.arg > maxAgents)
         => (ret'.out = "throw" /\ magents' = magents)
     /\ getActiveCount(magents') <= maxAgents]_vars

C20_EventOrder ==
  \A i \in 1..MaxInst : inst[i].phase # "out-of-order"

----------------------------------------------------------------------------
(* Properties of the hive mind *)

AtLeastOne(n) == IF n < 1 THEN 1 ELSE n

(* C21: knowledge confidence.  After every share, registerAgent and       *)
(* unregisterAgent every stored knowledge entry has confidence            *)
(* |votes| / max(1, |agents|).  Every state of SpecKnowledge but the       *)
(* initial one, which has no entry, follows one of the three calls.        *)
C21_KnowledgeConfidence ==
  \A k \in Keys :
    hive.knowledge[k] # NoEntry =>
      hive.knowledge[k].confidence * AtLeastOne(Cardinality(hive.agents))
        = Cardinality(hive.knowledge[k].votes) * Scale

(* C22: share / retrieve round trip.  retrieve(k) right after            *)
(* share(agent, k, v, confidence) returns v, or a value another agent       *)
(* shared with a higher confidence; never null, never an older value       *)
(* shared with a lower or equal confidence.  Stated for SpecKnowledge.      *)
C22_ShareRetrieve ==
  [][\A a \in AgentIds : \A k \in SharedKeys : \A v \in Values :
       \A c \in Confidences :
         hive' = share(hive, a, k, v, c) =>
           \/ retrieve(hive', k) = v
           \/ /\ retrieve(hive', k) # "null"
              /\ hive'.knowledge[k].by # a
              /\ hive'.knowledge[k].at > c]_vars

(* C23: bounded knowledge.  The knowledge map never holds more than       *)
(* maxMemorySize entries.  Stated for SpecPersist.                         *)
C23_BoundedKnowledge == KnowledgeSize(hive) <= maxMemorySize

(* A consensus request that has been finalized *)
Final(q) == q.status \in {"approved", "rejected", "timeout"}

(* C24: consensus finality.  Once the status of a request is approved,    *)
(* rejected or timeout, no step changes its status or its votes, and a     *)
(* vote on it throws.  Stated for SpecConsensus.                           *)
C24_ConsensusFinality ==
  [][\A r \in RequestIds :
       Final(hive.requests[r]) =>
         /\ hive'.requests[r].status = hive.requests[r].status
         /\ hive'.requests[r].votes = hive.requests[r].votes
         /\ (ret'.op = "vote" /\ ret'.arg = r) => ret'.out = "throw"]_vars

(* A vote on a finalized request that holds a vote has thrown, after the   *)
(* timer of its deadline has fired too                                      *)
C24_Witness ==
  \E r \in RequestIds :
    /\ Final(hive.requests[r])
    /\ \E a \in Voters : hive.requests[r].votes[a] # NoVote
    /\ hive.requests[r].timer = "fired"
    /\ ret = [op |-> "vote", arg |-> r, out |-> "throw"]

(* C25: one vote per worker.  In a pending request a vote of a worker     *)
(* that has voted already is rejected and leaves the recorded vote and the *)
(* request as they are.  Stated for SpecConsensus.                         *)
C25_OneVotePerWorker ==
  [][\A r \in RequestIds : \A a \in Voters :
       (hive.requests[r].status = "pending"
        /\ hive.requests[r].votes[a] # NoVote) =>
         hive'.requests[r].votes[a] = hive.requests[r].votes[a]]_vars

----------------------------------------------------------------------------
(* Properties of checkpoints, restarts and retries *)

(* The ids of the tasks in the ready queue *)
QueueIds(s) ==
  {s.inst[i].id : i \in {j \in DOMAIN s.inst : InQueue(s.queue, j)}}

(* An orchestrator that has just been constructed; the checkpoint refers   *)
(* to the results arrays, which stay                                       *)
Fresh(s) ==
  [s EXCEPT !.inst = [i \in DOMAIN s.inst |-> Free],
            !.tasks = [id \in TaskIds |-> 0],
            !.order = <<>>,
            !.queue = EmptyQueue]

(* C26: checkpoint round trip.  restore of serialize() into a fresh        *)
(* orchestrator yields the same getTaskStatus and getTaskResult for every  *)
(* task id, and a ready queue that holds exactly the tasks the ready queue *)
(* held when the checkpoint was taken.  Stated for SpecRestore, with the   *)
(* checkpoint taken in any reachable state.                                *)
C26_CheckpointRoundTrip ==
  LET r == restore(Fresh(State), serialize(State))
  IN /\ \A id \in TaskIds :
          /\ getTaskStatus(r, id) = getTaskStatus(State, id)
          /\ getTaskResult(r, id) = getTaskResult(State, id)
     /\ QueueIds(r) = QueueIds(State)

(* A PENDING task outside the ready queue, all of whose dependencies have  *)
(* completed successfully, in a running orchestrator                       *)
Unblocked(id) ==
  IF running /\ tasks[id] # 0
  THEN /\ inst[tasks[id]].status = "pending"
       /\ ~InQueue(queue, tasks[id])
       /\ \A d \in inst[tasks[id]].subdeps : done[d] # NoResult
  ELSE FALSE

(* C28: dependency resolution is live.  While the orchestrator runs, a     *)
(* pending task whose dependencies have all completed successfully         *)
(* eventually enters the ready queue, whatever the order of submission     *)
(* and completion.  Stated for SpecLive.                                   *)
C28_DependencyLiveness ==
  \A id \in TaskIds :
    Unblocked(id) ~> ~Unblocked(id)

(* A task whose attempt failed and whose retry time is still ahead *)
AwaitingRetry(i) == inst[i].status = "pending" /\ inst[i].retry > 0

(* The number of entries of the ready queue that hold instance i *)
Entries(q, i) ==
  Cardinality({<<k, n>> \in (1..4) \X (1..(MaxQueued + 1)) :
                 n <= Len(q[k]) /\ q[k][n] = i})

(* C29: retry admission.  A task that waits for its retry enters the ready *)
(* queue only in a tick that finds its retry time reached, by no other     *)
(* path, and once per retry: while its retry time is ahead no step adds an *)
(* entry for it to the queue or hands it to an agent, and the tick that    *)
(* finds its retry time reached leaves one entry for it at most.  Stated   *)
(* for SpecRetry.                                                          *)
C29_RetryAdmission ==
  [][\A i \in 1..MaxInst :
       /\ AwaitingRetry(i) =>
            /\ Entries(queue', i) <= Entries(queue, i)
            /\ inst'[i].attempts = inst[i].attempts
       /\ (inst[i].status = "pending" /\ inst[i].retry = 0) =>
            Entries(queue', i) <= 1]_vars

(* The smaller of two numbers *)
Least(x, y) == IF x < y THEN x ELSE y

(* C30: backoff schedule.  After the a-th failed attempt the exponential   *)
(* strategy waits min(maxDelay, initialDelay * 2^(a-1)), the constant      *)
(* strategy waits initialDelay (capped by maxDelay), and with initialDelay *)
(* <= maxDelay no strategy waits less than initialDelay or more than       *)
(* maxDelay.  Stated for SpecBackoff.                                      *)
C30_BackoffSchedule ==
  backoff.delay # -1 =>
    /\ backoff.strategy = "exponential" =>
         backoff.delay = Least(backoff.maxDelay,
                               backoff.initialDelay
                                 * 2 ^ (backoff.attempts - 1))
    /\ backoff.strategy = "constant" =>
         backoff.delay = Least(backoff.maxDelay, backoff.initialDelay)
    /\ backoff.initialDelay <= backoff.maxDelay =>
         /\ backoff.delay >= backoff.initialDelay
         /\ backoff.delay <= backoff.maxDelay

----------------------------------------------------------------------------
(* Properties of scheduling fairness *)

(* The task is in the ready queue of a running orchestrator *)
Ready(id) ==
  IF running /\ tasks[id] # 0
  THEN inst[tasks[id]].status = "pending" /\ InQueue(queue, tasks[id])
  ELSE FALSE

(* A registered agent that can execute the task is idle *)
IdleEligible(id) ==
  IF tasks[id] # 0
  THEN \E a \in agents :
         astate[a] = "idle" /\ canExecute(State, a, tasks[id])
  ELSE FALSE

(* C31: no starvation.  If an agent eligible for a task is idle again and  *)
(* again, a task of any priority in the ready queue eventually leaves it   *)
(* for an agent, even when tasks of higher priority keep being submitted.  *)
(* Stated for SpecStream.                                                   *)
C31_NoStarvation ==
  \A id \in TaskIds :
    ([]<>IdleEligible(id)) => (Ready(id) ~> ~Ready(id))

----------------------------------------------------------------------------
(* Properties of health checks *)

(* C32: health failure handling.  Every agent whose probe fails, an agent  *)
(* in ERROR included, is handled in that round: when its probe ends, a     *)
(* restart is scheduled after restartDelay * backoffMultiplier ^           *)
(* restartCount if restartCount < maxRestarts, and otherwise the agent is  *)
(* removed from the pool with agent:failed.  Stated for SpecHealth.        *)
C32_HealthFailureHandled ==
  [][\A k \in 1..MaxSlots :
       (health.round = k /\ health'.round # k /\ ~healthCheck(magents, k))
         => IF health.restartCount[k] < maxRestarts
            THEN health'.restarts[k] =
                   restartDelay * backoffMultiplier ^ health.restartCount[k]
            ELSE magents'[k] = "free" /\ k \in health'.failed]_vars

----------------------------------------------------------------------------
(* Properties of the agents *)

(* The edges of the life of an agent, from IDLE on; stop() of an agent    *)
(* without a task passes through TERMINATING within one turn               *)
StateEdge(from, to) ==
  \/ from = "idle" /\ to = "busy"
  \/ from = "idle" /\ to = "terminated"
  \/ from = "busy" /\ to = "idle"
  \/ from \in {"idle", "busy"} /\ to = "terminating"
  \/ from = "terminating" /\ to = "terminated"
  \/ to = "error"

(* C34: worker state edges.  The state of an agent changes only along      *)
(* Idle <-> Busy, -> Terminating -> Terminated, or -> Error; however       *)
(* stop() and a running execute() interleave, an agent in TERMINATING or   *)
(* TERMINATED does not return to IDLE or BUSY and takes no further task.   *)
(* Stated for SpecStop.                                                     *)
C34_StateEdges ==
  [][\A a \in AgentIds :
       /\ astate'[a] # astate[a] => StateEdge(astate[a], astate'[a])
       /\ astate[a] \in {"terminating", "terminated"} =>
            /\ astate'[a] \notin {"idle", "busy"}
            /\ acur'[a] \in {0, acur[a]}]_vars

----------------------------------------------------------------------------
(* Properties of the eviction *)

Present(h) == {j \in Keys : h.knowledge[j] # NoEntry}

(* C35: eviction order.  When a share of a new key raises the number of    *)
(* entries above maxMemorySize, exactly the excess is removed, lowest      *)
(* confidence first and the oldest first among equal confidences: every    *)
(* entry kept has a confidence at least that of every entry removed, the   *)
(* keys removed read as absent and the keys kept return their values.      *)
(* Stated for SpecEvict.                                                    *)
C35_EvictionOrder ==
  \A a \in AgentIds : \A k \in Keys : \A v \in Values : \A c \in Confidences :
    (hive.knowledge[k] = NoEntry /\ KnowledgeSize(hive) >= maxMemorySize) =>
      LET after == share(hive, a, k, v, c)
          all == Present(hive) \cup {k}
          kept == Present(after)
          confidence(j) == IF j = k THEN c ELSE hive.knowledge[j].confidence
          stamp(j) == IF j = k THEN Now(hive) ELSE hive.knowledge[j].stamp
          value(j) == IF j = k THEN v ELSE hive.knowledge[j].value
      IN /\ kept \subseteq all
         /\ Cardinality(all \ kept) = Cardinality(all) - maxMemorySize
         /\ \A e \in all \ kept : \A j \in kept :
              \/ confidence(e) < confidence(j)
              \/ confidence(e) = confidence(j) /\ stamp(e) < stamp(j)
         /\ \A e \in all \ kept : retrieve(after, e) = "null"
         /\ \A j \in kept : retrieve(after, j) = value(j)

(* A share has just pruned the memory, which is full again, holds entries  *)
(* of different confidences and lacks a key                                *)
C35_Witness ==
  /\ ret.op = "share"
  /\ ret.out = "memory:pruned"
  /\ KnowledgeSize(hive) = maxMemorySize
  /\ \E j \in Present(hive) : \E l \in Present(hive) :
       hive.knowledge[j].confidence < hive.knowledge[l].confidence

----------------------------------------------------------------------------
(* Properties of the consensus decision *)

(* The votes of the request reach consensusThreshold * |agents| *)
EnoughVotes(h, q) ==
  100 * VoteCount(q) >= consensusThreshold * Cardinality(h.agents)

----------------------------------------------------------------------------
(* Properties of the autoscaler *)

(* C37: worker floor.  No decision of the autoscaler brings the number of  *)
(* agents below scaling.minAgents; an idle swarm without tasks is not      *)
(* scaled down to no agent.  Stated for SpecAuto.                           *)
C37_WorkerFloor ==
  [][ret'.op = "autoscale" => Cardinality(agents') >= minAgents]_vars

----------------------------------------------------------------------------
(* Properties of the ready queue *)

(* The instances in the ready queue, one for each entry *)
Queued(q) ==
  {<<k, n>> \in (1..4) \X (1..(MaxQueued + 1)) : n <= Len(q[k])}

(* C38: queue well-formedness.  In every reachable state a task id occurs  *)
(* at most once in the ready queue, and every queued task is PENDING with  *)
(* no retry time ahead: no tick adds a task that is queued, assigned or    *)
(* running already.  Stated for SpecRetry.                                  *)
C38_QueueWellFormed ==
  /\ \A e \in Queued(queue) : \A f \in Queued(queue) :
       inst[queue[e[1]][e[2]]].id = inst[queue[f[1]][f[2]]].id => e = f
  /\ \A e \in Queued(queue) :
       /\ inst[queue[e[1]][e[2]]].status = "pending"
       /\ inst[queue[e[1]][e[2]]].retry <= 0

----------------------------------------------------------------------------
(* Properties of the executions *)

(* C39: no stale results.  When the execution of an agent ends, its result *)
(* is applied only if the task is still RUNNING on that agent: a result    *)
(* that arrives after the task timed out, was cancelled or was re-queued   *)
(* by unregisterAgent changes neither the status nor the results of the    *)
(* task, nor the queue.  Stated for SpecCancel.                             *)
C39_NoStaleResults ==
  [][\A a \in AgentIds :
       (/\ acur[a] # 0
        /\ acur'[a] = 0
        /\ ~(/\ inst[acur[a]].status = "running"
             /\ inst[acur[a]].assignedAgent = a))
         => /\ inst'[acur[a]].status = inst[acur[a]].status
            /\ results'[inst[acur[a]].res] = results[inst[acur[a]].res]
            /\ queue' = queue]_vars

====
